---- MODULE Spec2Model ----
(***************************************************************************)
(* Model of the job-lead pipeline's deduplicating store                    *)
(* (src/notion_logger.py, class NotionLoggerDedup) together with the URL   *)
(* handling of the discovery layer that feeds it.                          *)
(*                                                                         *)
(* The remote tracker is a sequence of pages (page id = index).  A store   *)
(* instance keeps a cache of page snapshots keyed by job URL.  Every       *)
(* public coroutine of the store is one action: the coroutines only await  *)
(* their own helpers and issue blocking HTTP calls, so a handler runs to   *)
(* completion before the next one starts.                                  *)
(*                                                                         *)
(* Numbers: raw scores are multiples of 0.5, so a raw score is kept as     *)
(* twice its value (raw2) and a submitted confidence in twentieths         *)
(* (16 = 0.80).  The stored "Confidence" property is                       *)
(* round(confidence * 100, 1), a number on the 0..100 scale.               *)
(***************************************************************************)
EXTENDS Integers, Sequences, FiniteSets, TLC

VARIABLES pages, cache, cacheRefreshed, clock, monthStart, lastOp, submitted, anyFail,
          icp_profiles, listing, scored, raw_budget, extracted, run, wall, generator, proposals

vars == <<pages, cache, cacheRefreshed, clock, monthStart, lastOp, submitted, anyFail,
          icp_profiles, listing, scored, raw_budget, extracted, run, wall, generator, proposals>>

\* The store's variables, the scorer's variables.
storeVars == <<pages, cache, cacheRefreshed, clock, monthStart, lastOp, submitted, anyFail>>

scorerVars == <<icp_profiles, listing, scored>>

budgetVars == <<raw_budget, extracted>>

\* The campaign run and the wall clock it reads (seconds).
runVars == <<run, wall>>

\* The proposal generator and what it returned.
proposalVars == <<generator, proposals>>

\* Everything outside the store.
nonStoreVars == <<scorerVars, budgetVars, runVars, proposalVars>>

\* ------------------------------------------------------------------ bounds
MaxClock == 3

\* --------------------------------------------------------- program constants
TitleLimit == 100
PageSize == 100
UnitsPerOne == 20
PercentPerUnit == 5
HighThreshold2 == 14
MediumThreshold2 == 10

NoneNum == -1
NoneId == 0

Min(a, b) == IF a < b THEN a ELSE b

Take(s, n) == SubSeq(s, 1, Min(n, Len(s)))

\* ------------------------------------------------------------ input domains
\* Raw discovered items: the link (the posting, a tracking query parameter,
\* 0 = none, and whether the link is relative), the title (a character
\* sequence), the budget text ("" when the source shows none) and score2,
\* twice the best raw score the classifier computes for the item's text.  The
\* first three are one posting surfaced with more or less matching context,
\* the last is the same posting reached through a tracking link.
RawTiles ==
  { [href |-> [posting |-> 1, track |-> 0, relative |-> TRUE],
     title |-> <<"c", "o", "o">>, budget |-> "", score2 |-> 0],
    [href |-> [posting |-> 1, track |-> 0, relative |-> TRUE],
     title |-> <<"c", "o", "o">>, budget |-> "", score2 |-> 10],
    [href |-> [posting |-> 1, track |-> 0, relative |-> TRUE],
     title |-> <<"c", "e", "o">>, budget |-> "$80/hr", score2 |-> 16],
    [href |-> [posting |-> 1, track |-> 1, relative |-> FALSE],
     title |-> <<"c", "e", "o">>, budget |-> "$80/hr", score2 |-> 16] }

Campaigns == { "executive_suite", "high_value" }
StatusInputs == { "Won", "On Hold" }
ProposalData == { [has_word_count |-> FALSE, word_count |-> 0],
                  [has_word_count |-> TRUE, word_count |-> 180] }
Outcomes == { "ok", "err", "exc" }
Orders == { "asc", "desc" }

\* -------------------------------------------------------- discovery: job URL
\* parse_job_tile: a relative href is prefixed with the site; the query part
\* is kept in job.url and only dropped for job.id.
TileUrl(href) == [posting |-> href.posting, track |-> href.track]

TileJobId(url) == url.posting

ParseJobTile(tile) ==
  [id |-> TileJobId(TileUrl(tile.href)), url |-> TileUrl(tile.href),
   title |-> tile.title, budget |-> tile.budget]

Jobs == { ParseJobTile(t) : t \in RawTiles }

Urls == { j.url : j \in Jobs }

\* ------------------------------------------------------------ scorer output
\* Variant: a raw score of exactly 7 is still Medium.
FitLevel_HighAboveSeven(raw2) ==
  IF raw2 > HighThreshold2 THEN "High"
  ELSE IF raw2 >= MediumThreshold2 THEN "Medium"
  ELSE "Low"

\* score_job: fit level and confidence from the best raw score (raw2 is twice
\* the raw score, which is a multiple of 0.5).
FitLevel(raw2) ==
  IF raw2 >= HighThreshold2 THEN "High"
  ELSE IF raw2 >= MediumThreshold2 THEN "Medium"
  ELSE "Low"

Confidence(raw2) == Min(raw2, UnitsPerOne)

\* The ICPScore for a best raw score: without a match the profile name is
\* "No strong match".
MakeICPScore(raw2) ==
  [fit_level |-> FitLevel(raw2), confidence |-> Confidence(raw2),
   industry_match |-> IF raw2 > 0 THEN "scaling_startup" ELSE "No strong match"]

\* ------------------------------------------------------------ remote tracker
PageIds == 1..Len(pages)

\* Pages answering a query, in the order the tracker returns them.
SortedIds(ids, ord) ==
  [k \in 1..Cardinality(ids) |->
     CHOOSE i \in ids :
       Cardinality({j \in ids : IF ord = "asc" THEN j < i ELSE j > i}) = k - 1]

QueryResults(ps, ids, ord, limit) == Take([k \in 1..Cardinality(ids) |-> ps[SortedIds(ids, ord)[k]]], limit)

\* ----------------------------------------------------------- property readers
\* _extract_number_from_property / _extract_select_from_property applied to a
\* page's Confidence / Status property (NoneNum, "" when the property is unset).
ExtractNumber(page) == page.confidence

ExtractSelect(page) == page.status

Falsy(x) == x = NoneNum \/ x = 0

\* round(icp_score.confidence * 100, 1)
StoredConfidence(score) == score.confidence * PercentPerUnit

\* ------------------------------------------------------------------- cache
EmptyCache == [u \in {} |-> 0]

\* _refresh_existing_jobs_cache: query the pages added after the start of the
\* month; on a 200 answer store every result under its URL (a later result
\* replaces an earlier one) and mark the cache refreshed.
RefreshCache(c, refreshed, ps, ms, rOut, ord) ==
  IF rOut = "ok"
  THEN LET res == QueryResults(ps, {i \in 1..Len(ps) : ps[i].date_added > ms}, ord, PageSize)
           hit(u) == {k \in 1..Len(res) : res[k].url = u}
           last(u) == CHOOSE k \in hit(u) : \A j \in hit(u) : j <= k
       IN [cache |-> [u \in DOMAIN c \cup {res[k].url : k \in 1..Len(res)} |->
                        IF hit(u) # {} THEN res[last(u)] ELSE c[u]],
           refreshed |-> TRUE]
  ELSE [cache |-> c, refreshed |-> refreshed]

\* _find_existing_job: refresh the cache once, answer from the cache, else
\* query the tracker for the URL and cache the first result.
FindExistingJob(c, refreshed, ps, ms, url, rOut, qOut, ord) ==
  LET r == IF ~refreshed THEN RefreshCache(c, refreshed, ps, ms, rOut, ord)
           ELSE [cache |-> c, refreshed |-> refreshed]
      rFailed == ~refreshed /\ rOut # "ok"
      res == QueryResults(ps, {i \in 1..Len(ps) : ps[i].url = url}, ord, 1)
  IN IF url \in DOMAIN r.cache
     THEN [found |-> <<r.cache[url]>>, cache |-> r.cache, refreshed |-> r.refreshed,
           lookup |-> "cache", failed |-> rFailed]
     ELSE IF qOut = "ok" /\ res # <<>>
     THEN [found |-> <<res[1]>>,
           cache |-> [u \in DOMAIN r.cache \cup {url} |-> IF u = url THEN res[1] ELSE r.cache[u]],
           refreshed |-> r.refreshed, lookup |-> "remote", failed |-> rFailed]
     ELSE [found |-> <<>>, cache |-> r.cache, refreshed |-> r.refreshed,
           lookup |-> IF qOut = "ok" THEN "miss" ELSE "failed",
           failed |-> rFailed \/ qOut # "ok"]

\* ------------------------------------------------------------------- merge
\* "Update ICP score if it's better": the submitted confidence (0..1) against
\* the Confidence number read from the snapshot (0..100).
ScoreImproves(cur, score) == Falsy(cur) \/ score.confidence > cur * UnitsPerOne

StatusOpen(cur) == cur = "" \/ cur = "Prospecting"

\* Variant: the merge stamps Date Added as well as Last Seen.
UpdateData_TouchesDateAdded(existing, job, score, campaign, now) ==
  [f \in {"last_seen", "campaign", "date_added"} |->
     IF f = "campaign" THEN campaign ELSE now]

\* Variant: the campaign tag is written at creation only.
UpdateData_KeepsCampaign(existing, job, score, campaign, now) ==
  [f \in {"last_seen"} |-> now]

\* The properties _update_existing_job sends in its PATCH.
UpdateData(existing, job, score, campaign, now) ==
  LET fields == {"last_seen", "campaign"}
                \cup (IF ScoreImproves(ExtractNumber(existing), score)
                      THEN {"confidence", "fit_level"} ELSE {})
                \cup (IF StatusOpen(ExtractSelect(existing)) THEN {"status"} ELSE {})
  IN [f \in fields |->
        CASE f = "last_seen" -> now
          [] f = "campaign" -> campaign
          [] f = "confidence" -> StoredConfidence(score)
          [] f = "fit_level" -> score.fit_level
          [] f = "status" -> "Updated"]

\* The tracker's PATCH /pages/{id}: the sent properties replace the page's.
Patch(ps, id, data) ==
  [ps EXCEPT ![id] = [f \in DOMAIN ps[id] |-> IF f \in DOMAIN data THEN data[f] ELSE ps[id][f]]]

\* _update_existing_job: a failed PATCH is printed and swallowed.
UpdateExistingJob(ps, existing, job, score, campaign, now, wOut) ==
  IF wOut = "ok" THEN Patch(ps, existing.id, UpdateData(existing, job, score, campaign, now))
  ELSE ps

\* ------------------------------------------------------------------ create
NewPage(id, job, score, campaign, now) ==
  [id |-> id, url |-> job.url, title |-> Take(job.title, TitleLimit),
   budget |-> IF job.budget = "" THEN "Not specified" ELSE job.budget,
   campaign |-> campaign, date_added |-> now, status |-> "Prospecting",
   confidence |-> StoredConfidence(score), fit_level |-> score.fit_level,
   industry_match |-> score.industry_match,
   last_seen |-> NoneNum, proposal_date |-> NoneNum, word_count |-> NoneNum,
   status_updated |-> NoneNum]

\* _create_new_job: on a 200 answer the new page is cached under job.url and
\* its id returned; otherwise None.
CreateNewJob(ps, c, job, score, campaign, now, wOut) ==
  IF wOut = "ok"
  THEN LET page == NewPage(Len(ps) + 1, job, score, campaign, now)
       IN [pages |-> Append(ps, page),
           cache |-> [u \in DOMAIN c \cup {job.url} |-> IF u = job.url THEN page ELSE c[u]],
           ret |-> page.id]
  ELSE [pages |-> ps, cache |-> c, ret |-> NoneId]

\* ------------------------------------------------------------------ upsert
\* Variant: every discovery is logged as a new entry (no duplicate check).
LogJobOpportunity_NoLookup(ps, c, refreshed, ms, job, score, campaign, now, rOut, qOut, wOut, ord) ==
  LET n == CreateNewJob(ps, c, job, score, campaign, now, wOut)
  IN [pages |-> n.pages, cache |-> n.cache, refreshed |-> refreshed, ret |-> n.ret,
      lookup |-> "miss", path |-> "create", failed |-> FALSE]

\* Variant: a failed duplicate check ends the upsert instead of falling
\* through to the create path.
LogJobOpportunity_DropOnLookupFailure(ps, c, refreshed, ms, job, score, campaign, now, rOut, qOut, wOut, ord) ==
  LET f == FindExistingJob(c, refreshed, ps, ms, job.url, rOut, qOut, ord)
  IN IF f.found # <<>>
     THEN [pages |-> UpdateExistingJob(ps, f.found[1], job, score, campaign, now, wOut),
           cache |-> f.cache, refreshed |-> f.refreshed, ret |-> f.found[1].id,
           lookup |-> f.lookup, path |-> "merge", failed |-> f.failed]
     ELSE IF f.lookup = "failed"
     THEN [pages |-> ps, cache |-> f.cache, refreshed |-> f.refreshed, ret |-> NoneId,
           lookup |-> f.lookup, path |-> "none", failed |-> f.failed]
     ELSE LET n == CreateNewJob(ps, f.cache, job, score, campaign, now, wOut)
          IN [pages |-> n.pages, cache |-> n.cache, refreshed |-> f.refreshed, ret |-> n.ret,
              lookup |-> f.lookup, path |-> "create", failed |-> f.failed]

\* log_job_opportunity: merge into the entry found for job.url, else create.
LogJobOpportunity(ps, c, refreshed, ms, job, score, campaign, now, rOut, qOut, wOut, ord) ==
  LET f == FindExistingJob(c, refreshed, ps, ms, job.url, rOut, qOut, ord)
  IN IF f.found # <<>>
     THEN [pages |-> UpdateExistingJob(ps, f.found[1], job, score, campaign, now, wOut),
           cache |-> f.cache, refreshed |-> f.refreshed, ret |-> f.found[1].id,
           lookup |-> f.lookup, path |-> "merge", failed |-> f.failed]
     ELSE LET n == CreateNewJob(ps, f.cache, job, score, campaign, now, wOut)
          IN [pages |-> n.pages, cache |-> n.cache, refreshed |-> f.refreshed, ret |-> n.ret,
              lookup |-> f.lookup, path |-> "create", failed |-> f.failed]

\* ------------------------------------------------------------ status changes
\* Variant: the status is reported as updated although no entry was found.
MarkJobStatus_TrueWhenMissing(ps, c, refreshed, ms, url, status, now, rOut, qOut, wOut, ord) ==
  LET f == FindExistingJob(c, refreshed, ps, ms, url, rOut, qOut, ord)
      data == [g \in {"status", "status_updated"} |-> IF g = "status" THEN status ELSE now]
  IN IF f.found # <<>>
     THEN [pages |-> IF wOut = "ok" THEN Patch(ps, f.found[1].id, data) ELSE ps,
           cache |-> f.cache, refreshed |-> f.refreshed, ok |-> wOut = "ok",
           lookup |-> f.lookup, write |-> IF wOut = "ok" THEN "ok" ELSE "failed",
           target |-> f.found[1].id, failed |-> f.failed \/ wOut # "ok"]
     ELSE [pages |-> ps, cache |-> f.cache, refreshed |-> f.refreshed, ok |-> TRUE,
           lookup |-> f.lookup, write |-> "none", target |-> NoneId, failed |-> f.failed]

\* mark_job_status: True after a 200 PATCH of the found entry, False when no
\* entry is found or the PATCH fails.
MarkJobStatus(ps, c, refreshed, ms, url, status, now, rOut, qOut, wOut, ord) ==
  LET f == FindExistingJob(c, refreshed, ps, ms, url, rOut, qOut, ord)
      data == [g \in {"status", "status_updated"} |-> IF g = "status" THEN status ELSE now]
  IN IF f.found # <<>>
     THEN [pages |-> IF wOut = "ok" THEN Patch(ps, f.found[1].id, data) ELSE ps,
           cache |-> f.cache, refreshed |-> f.refreshed, ok |-> wOut = "ok",
           lookup |-> f.lookup, write |-> IF wOut = "ok" THEN "ok" ELSE "failed",
           target |-> f.found[1].id, failed |-> f.failed \/ wOut # "ok"]
     ELSE [pages |-> ps, cache |-> f.cache, refreshed |-> f.refreshed, ok |-> FALSE,
           lookup |-> f.lookup, write |-> "none", target |-> NoneId, failed |-> f.failed]

\* log_proposal: the found entry becomes "Proposal Submitted" with the proposal
\* date and word count; nothing is returned.
LogProposal(ps, c, refreshed, ms, url, proposal_data, now, rOut, qOut, wOut, ord) ==
  LET f == FindExistingJob(c, refreshed, ps, ms, url, rOut, qOut, ord)
      data == [g \in {"status", "proposal_date", "word_count"} |->
                 CASE g = "status" -> "Proposal Submitted"
                   [] g = "proposal_date" -> now
                   [] g = "word_count" -> IF proposal_data.has_word_count
                                          THEN proposal_data.word_count ELSE 0]
  IN IF f.found # <<>>
     THEN [pages |-> IF wOut = "ok" THEN Patch(ps, f.found[1].id, data) ELSE ps,
           cache |-> f.cache, refreshed |-> f.refreshed,
           lookup |-> f.lookup, write |-> IF wOut = "ok" THEN "ok" ELSE "failed",
           target |-> f.found[1].id, failed |-> f.failed \/ wOut # "ok"]
     ELSE [pages |-> ps, cache |-> f.cache, refreshed |-> f.refreshed,
           lookup |-> f.lookup, write |-> "none", target |-> NoneId, failed |-> f.failed]

\* ================================================================== scorer
\* Text is a sequence of characters, so that "keyword in job_text" is the
\* substring test of the source.
UpperCase ==
  <<"A", "B", "C", "D", "E", "F", "G", "H", "I", "J", "K", "L", "M", "N", "O", "P", "Q", "R", "S", "T", "U", "V", "W", "X", "Y", "Z">>

LowerCase ==
  <<"a", "b", "c", "d", "e", "f", "g", "h", "i", "j", "k", "l", "m", "n", "o", "p", "q", "r", "s", "t", "u", "v", "w", "x", "y", "z">>

Digits ==
  <<"0", "1", "2", "3", "4", "5", "6", "7", "8", "9">>

\* str.lower() on the letters the inputs use.
LowerChar(c) ==
  IF \E i \in 1..Len(UpperCase) : UpperCase[i] = c
  THEN LowerCase[CHOOSE i \in 1..Len(UpperCase) : UpperCase[i] = c]
  ELSE c

Lower(t) == SubSeq([i \in 1..Len(t) |-> LowerChar(t[i])], 1, Len(t))

\* k in t
Contains(t, k) ==
  \E i \in 1..(Len(t) - Len(k) + 1) : \A j \in 1..Len(k) : t[i + j - 1] = k[j]

IsDigit(c) == \E d \in 1..Len(Digits) : Digits[d] = c

DigitValue(c) == (CHOOSE d \in 1..Len(Digits) : Digits[d] = c) - 1

\* float(s) for a run of digits s
DigitsValue(s) ==
  LET v[k \in 0..Len(s)] == IF k = 0 THEN 0 ELSE v[k - 1] * 10 + DigitValue(s[k])
  IN v[Len(s)]

\* The last position of the run of digits that starts at position i of t.
DigitRunEnd(t, i) ==
  CHOOSE e \in i..Len(t) :
    /\ \A k \in i..e : IsDigit(t[k])
    /\ e = Len(t) \/ ~IsDigit(t[e + 1])

\* The last position of the match of \d+(?:,\d+)* that starts at position i:
\* the longest stretch of digits and commas in which every comma stands
\* between two digits.
GroupedRunEnd(t, i) ==
  LET ok(e) == \A k \in i..e :
                 \/ IsDigit(t[k])
                 \/ /\ t[k] = "," /\ i < k /\ k < e
                    /\ IsDigit(t[k - 1]) /\ IsDigit(t[k + 1])
  IN CHOOSE e \in i..Len(t) : ok(e) /\ \A f \in (e + 1)..Len(t) : ~ok(f)

\* The profile catalog built by AdvancedJobClassifier.__init__, in dictionary
\* (insertion) order.
ICPProfiles ==
  <<
  [name |-> "scaling_startup",
     keywords |->
       <<<<"s", "t", "a", "r", "t", "u", "p">>,
         <<"s", "c", "a", "l", "e">>,
         <<"g", "r", "o", "w", "t", "h">>,
         <<"s", "y", "s", "t", "e", "m", "s">>,
         <<"p", "r", "o", "c", "e", "s", "s", "e", "s">>,
         <<"o", "p", "e", "r", "a", "t", "i", "o", "n", "s">>,
         <<"f", "o", "u", "n", "d", "e", "r">>>>,
     pain_points |->
       <<<<"s", "c", "a", "l", "i", "n", "g">>,
         <<"o", "p", "e", "r", "a", "t", "i", "o", "n", "s">>,
         <<"s", "y", "s", "t", "e", "m", "s">>,
         <<"p", "r", "o", "c", "e", "s", "s", "e", "s">>,
         <<"t", "e", "a", "m", " ", "b", "u", "i", "l", "d", "i", "n", "g">>>>,
     company_size |->
       <<<<"2", "0", "-", "5", "0">>,
         <<"s", "m", "a", "l", "l", " ", "t", "e", "a", "m">>,
         <<"g", "r", "o", "w", "i", "n", "g", " ", "t", "e", "a", "m">>>>,
     budget_range |-> <<75, 150>>,
     ideal_duration |->
       <<<<"m", "o", "n", "t", "h", "s">>,
         <<"o", "n", "g", "o", "i", "n", "g">>,
         <<"l", "o", "n", "g", "-", "t", "e", "r", "m">>>>],
  [name |-> "operations_overhaul",
     keywords |->
       <<<<"o", "p", "e", "r", "a", "t", "i", "o", "n", "s">>,
         <<"e", "f", "f", "i", "c", "i", "e", "n", "c", "y">>,
         <<"p", "r", "o", "c", "e", "s", "s", " ", "i", "m", "p", "r", "o", "v", "e", "m", "e", "n", "t">>,
         <<"w", "o", "r", "k", "f", "l", "o", "w">>,
         <<"a", "u", "t", "o", "m", "a", "t", "i", "o", "n">>>>,
     pain_points |->
       <<<<"i", "n", "e", "f", "f", "i", "c", "i", "e", "n", "t">>,
         <<"m", "a", "n", "u", "a", "l", " ", "p", "r", "o", "c", "e", "s", "s", "e", "s">>,
         <<"c", "h", "a", "o", "s">>,
         <<"d", "i", "s", "o", "r", "g", "a", "n", "i", "z", "e", "d">>>>,
     company_size |->
       <<<<"m", "e", "d", "i", "u", "m">>,
         <<"g", "r", "o", "w", "i", "n", "g">>,
         <<"e", "s", "t", "a", "b", "l", "i", "s", "h", "e", "d">>>>,
     budget_range |-> <<60, 120>>,
     ideal_duration |->
       <<<<"w", "e", "e", "k", "s">>,
         <<"m", "o", "n", "t", "h", "s">>>>],
  [name |-> "team_leadership",
     keywords |->
       <<<<"l", "e", "a", "d", "e", "r", "s", "h", "i", "p">>,
         <<"t", "e", "a", "m", " ", "l", "e", "a", "d">>,
         <<"m", "a", "n", "a", "g", "e", "r">>,
         <<"d", "i", "r", "e", "c", "t", "o", "r">>,
         <<"m", "i", "l", "i", "t", "a", "r", "y">>,
         <<"v", "e", "t", "e", "r", "a", "n">>>>,
     pain_points |->
       <<<<"t", "e", "a", "m", " ", "m", "a", "n", "a", "g", "e", "m", "e", "n", "t">>,
         <<"l", "e", "a", "d", "e", "r", "s", "h", "i", "p">>,
         <<"s", "t", "r", "u", "c", "t", "u", "r", "e">>,
         <<"d", "i", "s", "c", "i", "p", "l", "i", "n", "e">>>>,
     company_size |->
       <<<<"a", "n", "y">>>>,
     budget_range |-> <<80, 200>>,
     ideal_duration |->
       <<<<"m", "o", "n", "t", "h", "s">>,
         <<"o", "n", "g", "o", "i", "n", "g">>,
         <<"p", "e", "r", "m", "a", "n", "e", "n", "t">>>>],
  [name |-> "sales_operations",
     keywords |->
       <<<<"s", "a", "l", "e", "s", " ", "o", "p", "e", "r", "a", "t", "i", "o", "n", "s">>,
         <<"r", "e", "v", "e", "n", "u", "e", " ", "o", "p", "e", "r", "a", "t", "i", "o", "n", "s">>,
         <<"c", "r", "m">>,
         <<"s", "a", "l", "e", "s", " ", "p", "r", "o", "c", "e", "s", "s">>,
         <<"r", "e", "v", "e", "n", "u", "e">>,
         <<"s", "a", "l", "e", "s", " ", "d", "i", "r", "e", "c", "t", "o", "r">>,
         <<"c", "m", "o">>,
         <<"c", "r", "o">>,
         <<"c", "s", "o">>>>,
     pain_points |->
       <<<<"s", "a", "l", "e", "s", " ", "e", "f", "f", "i", "c", "i", "e", "n", "c", "y">>,
         <<"p", "r", "o", "c", "e", "s", "s">>,
         <<"d", "a", "t", "a">>,
         <<"p", "i", "p", "e", "l", "i", "n", "e">>,
         <<"f", "o", "r", "e", "c", "a", "s", "t", "i", "n", "g">>,
         <<"r", "e", "v", "e", "n", "u", "e", " ", "g", "r", "o", "w", "t", "h">>>>,
     company_size |->
       <<<<"m", "e", "d", "i", "u", "m">>,
         <<"l", "a", "r", "g", "e">>,
         <<"e", "n", "t", "e", "r", "p", "r", "i", "s", "e">>,
         <<"s", "c", "a", "l", "i", "n", "g">>>>,
     budget_range |-> <<75, 200>>,
     ideal_duration |->
       <<<<"m", "o", "n", "t", "h", "s">>,
         <<"o", "n", "g", "o", "i", "n", "g">>>>],
  [name |-> "revenue_leadership",
     keywords |->
       <<<<"f", "r", "a", "c", "t", "i", "o", "n", "a", "l", " ", "c", "m", "o">>,
         <<"f", "r", "a", "c", "t", "i", "o", "n", "a", "l", " ", "c", "r", "o">>,
         <<"f", "r", "a", "c", "t", "i", "o", "n", "a", "l", " ", "c", "s", "o">>,
         <<"r", "e", "v", "e", "n", "u", "e", " ", "o", "p", "e", "r", "a", "t", "i", "o", "n", "s">>,
         <<"s", "a", "l", "e", "s", " ", "t", "r", "a", "n", "s", "f", "o", "r", "m", "a", "t", "i", "o", "n">>,
         <<"m", "a", "r", "k", "e", "t", "i", "n", "g", " ", "o", "p", "e", "r", "a", "t", "i", "o", "n", "s">>>>,
     pain_points |->
       <<<<"r", "e", "v", "e", "n", "u", "e", " ", "g", "r", "o", "w", "t", "h">>,
         <<"s", "a", "l", "e", "s", " ", "p", "e", "r", "f", "o", "r", "m", "a", "n", "c", "e">>,
         <<"m", "a", "r", "k", "e", "t", "i", "n", "g", " ", "e", "f", "f", "i", "c", "i", "e", "n", "c", "y">>,
         <<"l", "e", "a", "d", " ", "g", "e", "n", "e", "r", "a", "t", "i", "o", "n">>,
         <<"c", "o", "n", "v", "e", "r", "s", "i", "o", "n", " ", "o", "p", "t", "i", "m", "i", "z", "a", "t", "i", "o", "n">>>>,
     company_size |->
       <<<<"s", "t", "a", "r", "t", "u", "p">>,
         <<"s", "c", "a", "l", "i", "n", "g">>,
         <<"m", "e", "d", "i", "u", "m">>>>,
     budget_range |-> <<100, 250>>,
     ideal_duration |->
       <<<<"m", "o", "n", "t", "h", "s">>,
         <<"o", "n", "g", "o", "i", "n", "g">>,
         <<"f", "r", "a", "c", "t", "i", "o", "n", "a", "l">>>>],
  [name |-> "strategic_consulting",
     keywords |->
       <<<<"g", "o", " ", "t", "o", " ", "m", "a", "r", "k", "e", "t">>,
         <<"g", "t", "m", " ", "s", "t", "r", "a", "t", "e", "g", "y">>,
         <<"b", "u", "s", "i", "n", "e", "s", "s", " ", "p", "l", "a", "n">>,
         <<"p", "i", "t", "c", "h", " ", "d", "e", "c", "k">>,
         <<"s", "t", "r", "a", "t", "e", "g", "i", "c", " ", "p", "l", "a", "n", "n", "i", "n", "g">>,
         <<"m", "a", "r", "k", "e", "t", " ", "e", "n", "t", "r", "y">>,
         <<"b", "u", "s", "i", "n", "e", "s", "s", " ", "s", "t", "r", "a", "t", "e", "g", "y">>>>,
     pain_points |->
       <<<<"m", "a", "r", "k", "e", "t", " ", "e", "n", "t", "r", "y">>,
         <<"s", "t", "r", "a", "t", "e", "g", "i", "c", " ", "d", "i", "r", "e", "c", "t", "i", "o", "n">>,
         <<"i", "n", "v", "e", "s", "t", "o", "r", " ", "r", "e", "a", "d", "i", "n", "e", "s", "s">>,
         <<"g", "r", "o", "w", "t", "h", " ", "p", "l", "a", "n", "n", "i", "n", "g">>,
         <<"c", "o", "m", "p", "e", "t", "i", "t", "i", "v", "e", " ", "p", "o", "s", "i", "t", "i", "o", "n", "i", "n", "g">>>>,
     company_size |->
       <<<<"s", "t", "a", "r", "t", "u", "p">>,
         <<"s", "c", "a", "l", "i", "n", "g">>,
         <<"e", "s", "t", "a", "b", "l", "i", "s", "h", "e", "d">>>>,
     budget_range |-> <<100, 300>>,
     ideal_duration |->
       <<<<"w", "e", "e", "k", "s">>,
         <<"m", "o", "n", "t", "h", "s">>,
         <<"p", "r", "o", "j", "e", "c", "t", "-", "b", "a", "s", "e", "d">>>>],
  [name |-> "crisis_management",
     keywords |->
       <<<<"c", "r", "i", "s", "i", "s">>,
         <<"u", "r", "g", "e", "n", "t">>,
         <<"c", "h", "a", "o", "s">>,
         <<"f", "i", "x">>,
         <<"s", "t", "a", "b", "i", "l", "i", "z", "e">>,
         <<"e", "m", "e", "r", "g", "e", "n", "c", "y">>>>,
     pain_points |->
       <<<<"c", "r", "i", "s", "i", "s">>,
         <<"u", "r", "g", "e", "n", "t", " ", "f", "i", "x">>,
         <<"s", "t", "a", "b", "i", "l", "i", "z", "a", "t", "i", "o", "n">>,
         <<"r", "a", "p", "i", "d", " ", "i", "m", "p", "r", "o", "v", "e", "m", "e", "n", "t">>>>,
     company_size |->
       <<<<"a", "n", "y">>>>,
     budget_range |-> <<100, 250>>,
     ideal_duration |->
       <<<<"w", "e", "e", "k", "s">>,
         <<"u", "r", "g", "e", "n", "t">>>>]
  >>

\* Catalogs a classifier can hold: the built-in one, the built-in one in
\* reverse order, and an empty one.
Catalogs ==
  { ICPProfiles,
    [i \in 1..Len(ICPProfiles) |-> ICPProfiles[Len(ICPProfiles) + 1 - i]],
    <<>> }

Titles ==
  { <<"F", "r", "a", "c", "t", "i", "o", "n", "a", "l", " ", "C", "O", "O">>,
    <<"S", "a", "l", "e", "s", " ", "D", "i", "r", "e", "c", "t", "o", "r">>,
    <<"V", "e", "t", "e", "r", "a", "n", " ", "t", "e", "a", "m", " ", "l", "e", "a", "d">>,
    <<"L", "o", "g", "o", " ", "d", "e", "s", "i", "g", "n">> }

Descriptions ==
  { <<>>,
    <<"s", "c", "a", "l", "e", " ", "o", "p", "e", "r", "a", "t", "i", "o", "n", "s", ",", " ", "g", "r", "o", "w", "i", "n", "g", " ", "t", "e", "a", "m", ",", " ", "m", "o", "n", "t", "h", "s">>,
    <<"C", "h", "a", "o", "s", ":", " ", "u", "r", "g", "e", "n", "t", " ", "f", "i", "x", ",", " ", "m", "e", "d", "i", "u", "m", " ", "c", "o", "m", "p", "a", "n", "y">>,
    <<"s", "t", "a", "r", "t", "u", "p", " ", "s", "c", "a", "l", "i", "n", "g", " ", "2", "0", "-", "5", "0", " ", "s", "m", "a", "l", "l", " ", "t", "e", "a", "m">> }

Budgets ==
  { <<>>,
    <<"$", "8", "0", "-", "$", "1", "2", "0", "/", "h", "r">>,
    <<"F", "i", "x", "e", "d", " ", "p", "r", "i", "c", "e", " ", "$", "5", ",", "0", "0", "0">>,
    <<"n", "e", "g", "o", "t", "i", "a", "b", "l", "e">>,
    <<"$", "4", "0", "/", "h", "r">> }

\* The listings handed to the scorer.
Listings == [title : Titles, description : Descriptions, budget : Budgets]

MilitaryTerms ==
  <<<<"m", "i", "l", "i", "t", "a", "r", "y">>,
    <<"v", "e", "t", "e", "r", "a", "n">>>>

LeadershipTerms ==
  <<<<"l", "e", "a", "d">>,
    <<"m", "a", "n", "a", "g", "e", "r">>,
    <<"d", "i", "r", "e", "c", "t", "o", "r">>,
    <<"h", "e", "a", "d", " ", "o", "f">>,
    <<"s", "e", "n", "i", "o", "r">>>>

HourlyMarks ==
  <<<<"/", "h", "r">>,
    <<"h", "o", "u", "r">>>>


\* _extract_budget_number: the digits after the first "$" that a digit follows;
\* the plain run of digits when the text mentions an hourly rate, else the run
\* with its thousands groups, commas removed.  NoneNum when nothing matches.
ExtractBudgetNumber(budget_text) ==
  LET starts == {i \in 1..(Len(budget_text) - 1) :
                   budget_text[i] = "$" /\ IsDigit(budget_text[i + 1])}
      first == (CHOOSE i \in starts : \A j \in starts : i <= j) + 1
      hourly == SubSeq(budget_text, first, DigitRunEnd(budget_text, first))
      fixed == SelectSeq(SubSeq(budget_text, first, GroupedRunEnd(budget_text, first)),
                         LAMBDA c : c # ",")
  IN IF starts = {} THEN NoneNum
     ELSE IF \E m \in 1..Len(HourlyMarks) : Contains(budget_text, HourlyMarks[m])
     THEN DigitsValue(hourly)
     ELSE DigitsValue(fixed)

\* How many entries of a phrase list occur in the text.
Matches(phrases, text) == Cardinality({i \in 1..Len(phrases) : Contains(text, phrases[i])})

\* Variant: company-size signals add one point however many are found.
CalculateProfileScore_SizeOnce(job, job_text, profile) ==
  LET budget_num == ExtractBudgetNumber(job.budget)
  IN 3 * Matches(profile.keywords, job_text)
     + 4 * Matches(profile.pain_points, job_text)
     + (IF Matches(profile.company_size, job_text) > 0 THEN 2 ELSE 0)
     + (IF job.budget # <<>> /\ ~Falsy(budget_num)
        THEN IF profile.budget_range[1] <= budget_num /\ budget_num <= profile.budget_range[2]
             THEN 4
             ELSE IF budget_num >= profile.budget_range[1] THEN 2 ELSE 0
        ELSE 0)
     + (IF Matches(profile.ideal_duration, job_text) > 0 THEN 2 ELSE 0)
     + (IF Matches(MilitaryTerms, job_text) > 0 THEN 6 ELSE 0)
     + (IF Matches(LeadershipTerms, job_text) > 0 THEN 2 ELSE 0)

\* _calculate_profile_score, in half points: 1.5 per keyword, 2 per pain
\* point, 1 per company-size signal, the budget term, 1 for a duration signal,
\* 3 for military/veteran, 1 for a leadership term.
CalculateProfileScore(job, job_text, profile) ==
  LET budget_num == ExtractBudgetNumber(job.budget)
  IN 3 * Matches(profile.keywords, job_text)
     + 4 * Matches(profile.pain_points, job_text)
     + 2 * Matches(profile.company_size, job_text)
     + (IF job.budget # <<>> /\ ~Falsy(budget_num)
        THEN IF profile.budget_range[1] <= budget_num /\ budget_num <= profile.budget_range[2]
             THEN 4
             ELSE IF budget_num >= profile.budget_range[1] THEN 2 ELSE 0
        ELSE 0)
     + (IF Matches(profile.ideal_duration, job_text) > 0 THEN 2 ELSE 0)
     + (IF Matches(MilitaryTerms, job_text) > 0 THEN 6 ELSE 0)
     + (IF Matches(LeadershipTerms, job_text) > 0 THEN 2 ELSE 0)

\* f"{job.title} {job.description}".lower()
JobText(job) == Lower(job.title \o <<" ">> \o job.description)

\* Variant: a profile that equals the best score so far replaces it.
BestMatch_LastWins(scores) ==
  LET best[k \in 0..Len(scores)] ==
        IF k = 0 THEN [match |-> 0, score |-> 0]
        ELSE LET sofar == best[k - 1]
             IN IF scores[k] >= sofar.score THEN [match |-> k, score |-> scores[k]]
                ELSE sofar
  IN best[Len(scores)]

\* Variant: the loop starts below every score, so that the first profile is
\* kept even when it scores 0.
BestMatch_StartsBelowZero(scores) ==
  LET best[k \in 0..Len(scores)] ==
        IF k = 0 THEN [match |-> 0, score |-> -1]
        ELSE LET sofar == best[k - 1]
             IN IF scores[k] > sofar.score THEN [match |-> k, score |-> scores[k]]
                ELSE sofar
  IN best[Len(scores)]

\* The loop of score_job over the catalog: best_match / best_score start as
\* None / 0 and a profile replaces them when its score is greater.  match is
\* the position of the kept profile, 0 for None.
BestMatch(scores) ==
  LET best[k \in 0..Len(scores)] ==
        IF k = 0 THEN [match |-> 0, score |-> 0]
        ELSE LET sofar == best[k - 1]
             IN IF scores[k] > sofar.score THEN [match |-> k, score |-> scores[k]]
                ELSE sofar
  IN best[Len(scores)]

\* The ICPScore built from the outcome of the loop, with the per-profile
\* scores, the outcome itself and the catalog as the call leaves it.
ICPScoreOf(best, scores, profiles) ==
  [score |-> [fit_level |-> FitLevel(best.score),
              confidence |-> Confidence(best.score),
              industry_match |-> IF best.match # 0 THEN profiles[best.match].name
                                 ELSE "No strong match"],
   best_match |-> best.match,
   best_score |-> best.score,
   profile_scores |-> scores,
   icp_profiles |-> profiles]

\* The score of every profile of the catalog, in catalog order.
ProfileScores(job, job_text, profiles) ==
  [k \in 1..Len(profiles) |-> CalculateProfileScore(job, job_text, profiles[k])]

\* Variant: the winning profile is taken out of the catalog.
ScoreJob_ConsumesBest(job, profiles) ==
  LET r == ICPScoreOf(BestMatch(ProfileScores(job, JobText(job), profiles)),
                      ProfileScores(job, JobText(job), profiles), profiles)
  IN [r EXCEPT !.icp_profiles =
        SelectSeq(profiles, LAMBDA pr : pr.name # r.score.industry_match)]

\* score_job: every profile is scored against the lowercased title and
\* description, the loop keeps the best one, and fit level and confidence
\* follow from the best score.  self.icp_profiles is only read.
ScoreJob(job, profiles) ==
  ICPScoreOf(BestMatch(ProfileScores(job, JobText(job), profiles)),
             ProfileScores(job, JobText(job), profiles), profiles)

\* ======================================================== budget extraction
\* The characters \s matches among those the inputs use.
WhiteSpace == <<" ", "\t", "\n">>

IsSpace(c) == \E w \in 1..Len(WhiteSpace) : WhiteSpace[w] = c

\* The position after \s* matched from position i.
SkipSpaces(t, i) ==
  CHOOSE e \in i..(Len(t) + 1) :
    /\ \A k \in i..(e - 1) : IsSpace(t[k])
    /\ e = Len(t) + 1 \/ ~IsSpace(t[e])

\* A literal at position i, with re.IGNORECASE.
LitAt(t, i, s) ==
  /\ i + Len(s) - 1 <= Len(t)
  /\ \A j \in 1..Len(s) : LowerChar(t[i + j - 1]) = s[j]

\* The last position of \d+(?:,\d+)?(?:\.\d+)? matched from position i, 0
\* when no digit stands there.
NumberEnd(t, i) ==
  IF i > Len(t) \/ ~IsDigit(t[i]) THEN 0
  ELSE LET e1 == DigitRunEnd(t, i)
           e2 == IF e1 + 2 <= Len(t) /\ t[e1 + 1] = "," /\ IsDigit(t[e1 + 2])
                 THEN DigitRunEnd(t, e1 + 2) ELSE e1
       IN IF e2 + 2 <= Len(t) /\ t[e2 + 1] = "." /\ IsDigit(t[e2 + 2])
          THEN DigitRunEnd(t, e2 + 2) ELSE e2

\* One pattern item matched after a partial match m (next position and the
\* groups captured so far).
MatchItem(t, m, item) ==
  IF ~m.ok THEN m
  ELSE CASE item.k = "ws" -> [m EXCEPT !.pos = SkipSpaces(t, m.pos)]
         [] item.k = "lit" ->
              IF LitAt(t, m.pos, item.s) THEN [m EXCEPT !.pos = m.pos + Len(item.s)]
              ELSE [m EXCEPT !.ok = FALSE]
         [] item.k = "alt" ->
              LET fit == {a \in 1..Len(item.ss) : LitAt(t, m.pos, item.ss[a])}
              IN IF fit = {} THEN [m EXCEPT !.ok = FALSE]
                 ELSE [m EXCEPT !.pos = m.pos + Len(item.ss[CHOOSE a \in fit : \A b \in fit : a <= b])]
         [] item.k = "num" ->
              LET e == NumberEnd(t, m.pos)
              IN IF e = 0 THEN [m EXCEPT !.ok = FALSE]
                 ELSE [ok |-> TRUE, pos |-> e + 1,
                       groups |-> Append(m.groups, SubSeq(t, m.pos, e))]

\* A whole pattern matched from position i.
MatchAt(t, i, p) ==
  LET m[k \in 0..Len(p)] ==
        IF k = 0 THEN [ok |-> TRUE, pos |-> i, groups |-> <<>>]
        ELSE MatchItem(t, m[k - 1], p[k])
  IN m[Len(p)]

\* re.search: the match at the leftmost position where the pattern matches.
Search(t, p) ==
  LET hits == {i \in 1..Len(t) : MatchAt(t, i, p).ok}
      start == CHOOSE i \in hits : \A j \in hits : i <= j
  IN IF hits = {} THEN [ok |-> FALSE, start |-> 0, last |-> 0, groups |-> <<>>]
     ELSE [ok |-> TRUE, start |-> start, last |-> MatchAt(t, start, p).pos - 1,
           groups |-> MatchAt(t, start, p).groups]

\* The first pattern of an ordered list that matches, 0 when none does.
FirstMatching(t, patterns) ==
  LET hits == {n \in 1..Len(patterns) : Search(t, patterns[n].p).ok}
  IN IF hits = {} THEN 0 ELSE CHOOSE n \in hits : \A k \in hits : n <= k

\* float(group.replace(',', '')) for a group without a fraction.
GroupValue(g) == DigitsValue(SelectSeq(g, LAMBDA c : c # ","))

\* The ordered pattern list of EnhancedUpworkRSS._extract_budget_info.  A
\* pattern is a sequence of items: a literal (matched ignoring case), \s*,
\* the number group (\d+(?:,\d+)?(?:\.\d+)?) or a choice of literals.
FeedBudgetPatterns ==
  <<[type |-> "hourly_range",
      p |-> <<[k |-> "lit", s |-> <<"b", "u", "d", "g", "e", "t", ":">>],
        [k |-> "ws"],
        [k |-> "lit", s |-> <<"$">>],
        [k |-> "num"],
        [k |-> "ws"],
        [k |-> "lit", s |-> <<"-">>],
        [k |-> "ws"],
        [k |-> "lit", s |-> <<"$">>],
        [k |-> "num"],
        [k |-> "ws"],
        [k |-> "lit", s |-> <<"/", "h", "r">>]>>],
    [type |-> "hourly_single",
      p |-> <<[k |-> "lit", s |-> <<"b", "u", "d", "g", "e", "t", ":">>],
        [k |-> "ws"],
        [k |-> "lit", s |-> <<"$">>],
        [k |-> "num"],
        [k |-> "ws"],
        [k |-> "lit", s |-> <<"/", "h", "r">>]>>],
    [type |-> "fixed",
      p |-> <<[k |-> "lit", s |-> <<"b", "u", "d", "g", "e", "t", ":">>],
        [k |-> "ws"],
        [k |-> "lit", s |-> <<"$">>],
        [k |-> "num"],
        [k |-> "ws"],
        [k |-> "alt", ss |-> <<<<"f", "i", "x", "e", "d">>, <<"t", "o", "t", "a", "l">>>>]>>],
    [type |-> "hourly_single",
      p |-> <<[k |-> "lit", s |-> <<"$">>],
        [k |-> "num"],
        [k |-> "ws"],
        [k |-> "lit", s |-> <<"/">>],
        [k |-> "ws"],
        [k |-> "lit", s |-> <<"h", "r">>]>>],
    [type |-> "hourly_single",
      p |-> <<[k |-> "lit", s |-> <<"$">>],
        [k |-> "num"],
        [k |-> "ws"],
        [k |-> "lit", s |-> <<"p", "e", "r">>],
        [k |-> "ws"],
        [k |-> "lit", s |-> <<"h", "o", "u", "r">>]>>]>>

\* The ordered pattern list of ExistingBrowserConnector._extract_budget_from_text.
TileBudgetPatterns ==
  <<[type |-> "hourly_range",
      p |-> <<[k |-> "lit", s |-> <<"$">>],
        [k |-> "num"],
        [k |-> "ws"],
        [k |-> "lit", s |-> <<"-">>],
        [k |-> "ws"],
        [k |-> "lit", s |-> <<"$">>],
        [k |-> "num"],
        [k |-> "ws"],
        [k |-> "lit", s |-> <<"/">>],
        [k |-> "ws"],
        [k |-> "lit", s |-> <<"h", "r">>]>>],
    [type |-> "hourly",
      p |-> <<[k |-> "lit", s |-> <<"$">>],
        [k |-> "num"],
        [k |-> "ws"],
        [k |-> "lit", s |-> <<"/">>],
        [k |-> "ws"],
        [k |-> "lit", s |-> <<"h", "r">>]>>],
    [type |-> "hourly",
      p |-> <<[k |-> "lit", s |-> <<"$">>],
        [k |-> "num"],
        [k |-> "ws"],
        [k |-> "lit", s |-> <<"p", "e", "r">>],
        [k |-> "ws"],
        [k |-> "lit", s |-> <<"h", "o", "u", "r">>]>>],
    [type |-> "hourly_range_no_dollar",
      p |-> <<[k |-> "num"],
        [k |-> "ws"],
        [k |-> "lit", s |-> <<"-">>],
        [k |-> "ws"],
        [k |-> "num"],
        [k |-> "ws"],
        [k |-> "lit", s |-> <<"/">>],
        [k |-> "ws"],
        [k |-> "lit", s |-> <<"h", "o", "u", "r">>]>>],
    [type |-> "fixed_range",
      p |-> <<[k |-> "lit", s |-> <<"$">>],
        [k |-> "num"],
        [k |-> "ws"],
        [k |-> "lit", s |-> <<"-">>],
        [k |-> "ws"],
        [k |-> "lit", s |-> <<"$">>],
        [k |-> "num"]>>],
    [type |-> "fixed",
      p |-> <<[k |-> "lit", s |-> <<"$">>],
        [k |-> "num"]>>],
    [type |-> "fixed_range_usd",
      p |-> <<[k |-> "num"],
        [k |-> "ws"],
        [k |-> "lit", s |-> <<"-">>],
        [k |-> "ws"],
        [k |-> "num"],
        [k |-> "ws"],
        [k |-> "lit", s |-> <<"u", "s", "d">>]>>],
    [type |-> "fixed_price",
      p |-> <<[k |-> "lit", s |-> <<"f", "i", "x", "e", "d">>],
        [k |-> "ws"],
        [k |-> "lit", s |-> <<"p", "r", "i", "c", "e">>],
        [k |-> "ws"],
        [k |-> "lit", s |-> <<"$">>],
        [k |-> "num"]>>],
    [type |-> "hourly_rate",
      p |-> <<[k |-> "lit", s |-> <<"h", "o", "u", "r", "l", "y">>],
        [k |-> "ws"],
        [k |-> "lit", s |-> <<"$">>],
        [k |-> "num"]>>],
    [type |-> "budget",
      p |-> <<[k |-> "lit", s |-> <<"b", "u", "d", "g", "e", "t", ":">>],
        [k |-> "ws"],
        [k |-> "lit", s |-> <<"$">>],
        [k |-> "num"]>>],
    [type |-> "fixed_text",
      p |-> <<[k |-> "lit", s |-> <<"f", "i", "x", "e", "d">>],
        [k |-> "ws"],
        [k |-> "lit", s |-> <<"p", "r", "i", "c", "e">>]>>],
    [type |-> "hourly_text",
      p |-> <<[k |-> "lit", s |-> <<"h", "o", "u", "r", "l", "y">>]>>]>>

\* Budget texts as the sources show them.
BudgetTexts ==
  { <<"$", "8", "0", "-", "$", "1", "2", "0", "/", "h", "r">>,
    <<"F", "i", "x", "e", "d", " ", "p", "r", "i", "c", "e", " ", "$", "5", ",", "0", "0", "0">>,
    <<"n", "e", "g", "o", "t", "i", "a", "b", "l", "e">>,
    <<>>,
    <<"B", "u", "d", "g", "e", "t", ":", " ", "$", "8", "0", "-", "$", "1", "2", "0", "/", "h", "r">>,
    <<"B", "u", "d", "g", "e", "t", ":", " ", "$", "5", ",", "0", "0", "0", " ", "f", "i", "x", "e", "d">>,
    <<"B", "u", "d", "g", "e", "t", ":", " ", "$", "9", "5", " ", "/", "h", "r">>,
    <<"$", "5", "0", " ", "p", "e", "r", " ", "h", "o", "u", "r">>,
    <<"H", "o", "u", "r", "l", "y">>,
    <<"3", "0", "-", "5", "0", "/", "h", "o", "u", "r">>,
    <<"$", "1", ",", "2", "0", "0", " ", "-", " ", "$", "2", ",", "0", "0", "0">>,
    <<"5", "0", "0", "-", "9", "0", "0", " ", "U", "S", "D">> }

NotSpecified == <<"N", "o", "t", " ", "s", "p", "e", "c", "i", "f", "i", "e", "d">>

HrSuffix == <<"/", "h", "r">>

FixedSuffix == <<" ", "f", "i", "x", "e", "d">>

\* _extract_budget_info: the dictionary built from the kind of the matching
\* pattern and the groups of its match (absent keys are NoneNum).
BudgetInfoOf(type, g) ==
  IF type = "hourly_range" /\ Len(g) >= 2
  THEN [budget_text |-> <<"$">> \o g[1] \o <<"-", "$">> \o g[2] \o HrSuffix,
        budget_type |-> "hourly",
        min_rate |-> GroupValue(g[1]), max_rate |-> GroupValue(g[2]), amount |-> NoneNum]
  ELSE IF type = "fixed"
  THEN [budget_text |-> <<"$">> \o g[1] \o FixedSuffix, budget_type |-> "fixed",
        min_rate |-> NoneNum, max_rate |-> NoneNum, amount |-> GroupValue(g[1])]
  ELSE [budget_text |-> <<"$">> \o g[1] \o HrSuffix, budget_type |-> "hourly",
        min_rate |-> GroupValue(g[1]), max_rate |-> NoneNum, amount |-> NoneNum]

\* _extract_budget_info: the patterns are tried in order and the first that
\* matches decides; no match gives the unknown budget.
BudgetInfoAt(description, n) ==
  IF n = 0
  THEN [budget_text |-> NotSpecified, budget_type |-> "unknown",
        min_rate |-> NoneNum, max_rate |-> NoneNum, amount |-> NoneNum]
  ELSE BudgetInfoOf(FeedBudgetPatterns[n].type,
                    Search(description, FeedBudgetPatterns[n].p).groups)

ExtractBudgetInfo(description) ==
  BudgetInfoAt(description, FirstMatching(description, FeedBudgetPatterns))

\* _extract_budget_from_text: the budget string built from the kind of the
\* matching pattern and its match.
BudgetTextOf(text, type, m) ==
  IF type \in {"hourly_range", "hourly_range_no_dollar"}
  THEN <<"$">> \o m.groups[1] \o <<"-", "$">> \o m.groups[2] \o HrSuffix
  ELSE IF type = "hourly" THEN <<"$">> \o m.groups[1] \o HrSuffix
  ELSE IF type \in {"fixed_range", "fixed_range_usd"}
  THEN <<"$">> \o m.groups[1] \o <<"-", "$">> \o m.groups[2]
  ELSE IF type \in {"fixed", "fixed_price", "hourly_rate", "budget"}
  THEN <<"$">> \o m.groups[1]
  ELSE SubSeq(text, m.start, m.last)

\* _extract_budget_from_text: empty text and text no pattern matches give
\* "Not specified".
BudgetTextAt(text, n) ==
  IF text = <<>> \/ n = 0 THEN NotSpecified
  ELSE BudgetTextOf(text, TileBudgetPatterns[n].type, Search(text, TileBudgetPatterns[n].p))

ExtractBudgetFromText(text) ==
  BudgetTextAt(text, FirstMatching(text, TileBudgetPatterns))

\* --------------------------------------------------------------- feed search
\* run_upwork_campaign: the search configurations of each mode, in the order
\* of the dictionary; an unknown mode runs the configurations of 'quick'.
CampaignModes ==
  [full |-> <<"executive_suite", "strategic_consulting", "revenue_operations",
              "coaching_mentoring">>,
   executive |-> <<"executive_suite">>,
   strategic |-> <<"strategic_consulting">>,
   quick |-> <<"high_value">>]

\* The modes the dashboard offers, and a mode nobody offers.
Modes == {"full", "executive", "strategic", "coaching", "quick", "recon"}

CampaignConfig(mode) ==
  IF mode \in DOMAIN CampaignModes THEN CampaignModes[mode] ELSE CampaignModes["quick"]

\* await asyncio.sleep(2) after each campaign.
SleepSeconds == 2

\* The wall clock when a run starts (seconds).
StartTime == 170

\* Links of feed items: two with a job id, two that carry the id
\* percent-encoded, one of another site, and an item without link.
JobLink1 == <<"h", "t", "t", "p", "s", ":", "/", "/", "w", "w", "w", ".", "u", "p", "w", "o", "r", "k", ".", "c", "o", "m", "/", "j", "o", "b", "s", "/", "~", "0", "1", "a">>

JobLink2 == <<"h", "t", "t", "p", "s", ":", "/", "/", "w", "w", "w", ".", "u", "p", "w", "o", "r", "k", ".", "c", "o", "m", "/", "j", "o", "b", "s", "/", "~", "0", "2", "b">>

EncodedLink1 == <<"h", "t", "t", "p", "s", ":", "/", "/", "w", "w", "w", ".", "u", "p", "w", "o", "r", "k", ".", "c", "o", "m", "/", "j", "o", "b", "s", "/", "O", "p", "s", "_", "%", "7", "E", "0", "3", "c">>

EncodedLink2 == <<"h", "t", "t", "p", "s", ":", "/", "/", "w", "w", "w", ".", "u", "p", "w", "o", "r", "k", ".", "c", "o", "m", "/", "j", "o", "b", "s", "/", "C", "O", "O", "_", "%", "7", "E", "0", "4", "d">>

ForeignLink == <<"h", "t", "t", "p", "s", ":", "/", "/", "e", "x", "a", "m", "p", "l", "e", ".", "c", "o", "m", "/", "j", "o", "b", "s", "/", "~", "0", "5", "e">>

NoLink == <<>>

\* A feed document: whether the text is well-formed XML, whether its text
\* holds an escaped ampersand (as in "R&amp;D"), and the links of its items.
EmptyFeed == [well_formed |-> TRUE, escaped_ampersand |-> FALSE, items |-> <<>>]

JobFeed ==
  [well_formed |-> TRUE, escaped_ampersand |-> FALSE,
   items |-> <<[link |-> JobLink1], [link |-> ForeignLink], [link |-> NoLink],
               [link |-> JobLink2]>>]

EncodedFeed ==
  [well_formed |-> TRUE, escaped_ampersand |-> FALSE,
   items |-> <<[link |-> EncodedLink1], [link |-> EncodedLink2]>>]

TruncatedFeed == [well_formed |-> FALSE, escaped_ampersand |-> FALSE, items |-> <<>>]

AmpersandFeed ==
  [well_formed |-> TRUE, escaped_ampersand |-> TRUE, items |-> <<[link |-> JobLink1]>>]

Feeds == {EmptyFeed, JobFeed, EncodedFeed, TruncatedFeed, AmpersandFeed}

\* What session.get gives for a campaign: a response with its status and
\* body, or an exception (timeout, connection error).
Responses ==
  {[kind |-> "response", status |-> 200, xml |-> f] : f \in Feeds}
    \cup {[kind |-> "response", status |-> 503, xml |-> EmptyFeed],
          [kind |-> "exception", status |-> 0, xml |-> EmptyFeed]}

UpworkSite == <<"u", "p", "w", "o", "r", "k", ".", "c", "o", "m">>

JobIdMark == <<"/", "j", "o", "b", "s", "/", "~">>

RssPrefix == <<"r", "s", "s", "_">>

HexDigits ==
  <<"0", "1", "2", "3", "4", "5", "6", "7", "8", "9", "a", "b", "c", "d", "e", "f">>

IsHex(c) == \E d \in 1..Len(HexDigits) : HexDigits[d] = c

\* The last position of the run of hex digits that starts at position i.
HexRunEnd(t, i) ==
  CHOOSE e \in i..Len(t) :
    /\ \A k \in i..e : IsHex(t[k])
    /\ e = Len(t) \/ ~IsHex(t[e + 1])

\* str(int(timestamp)).
MaxDigits == 4

NumDigits(n) == CHOOSE k \in 1..MaxDigits : n < 10 ^ k /\ (k = 1 \/ n >= 10 ^ (k - 1))

Decimal(n) == [i \in 1..NumDigits(n) |-> Digits[((n \div (10 ^ (NumDigits(n) - i))) % 10) + 1]]

\* The positions where /jobs/~ stands with a hex digit after it.
JobIdStarts(url) ==
  {i \in 1..(Len(url) - Len(JobIdMark)) :
     /\ SubSeq(url, i, i + Len(JobIdMark) - 1) = JobIdMark
     /\ IsHex(url[i + Len(JobIdMark)])}

JobIdFrom(url, starts) ==
  SubSeq(url, (CHOOSE i \in starts : \A j \in starts : i <= j) + Len(JobIdMark),
         HexRunEnd(url, (CHOOSE i \in starts : \A j \in starts : i <= j) + Len(JobIdMark)))

\* _extract_job_id: the hex digits after the first /jobs/~, else an id made
\* of the current second.
ExtractJobId(url, timestamp) ==
  IF JobIdStarts(url) = {} THEN RssPrefix \o Decimal(timestamp)
  ELSE JobIdFrom(url, JobIdStarts(url))

\* _clean_xml: every &amp; becomes a bare ampersand, which is not well-formed.
CleanXml(xml_content) ==
  [xml_content EXCEPT !.well_formed = xml_content.well_formed /\ ~xml_content.escaped_ampersand,
                      !.escaped_ampersand = FALSE]

\* ET.fromstring raises ParseError on text that is not well-formed.
ParseError(xml_content) == ~xml_content.well_formed

\* The elements of s at the positions in keep, in order.
SubSeqAt(s, keep) ==
  [k \in 1..Cardinality(keep) |->
     s[CHOOSE i \in keep : Cardinality({j \in keep : j <= i}) = k]]

\* _parse_rss_feed: the items that are kept, those with a link to the site.
ProperItems(items) ==
  {i \in 1..Len(items) : items[i].link # NoLink /\ Contains(items[i].link, UpworkSite)}

\* _parse_rss_feed: the job built from an item; campaign stands for the
\* campaign the job's campaign_score was computed for.
UpworkJob(item, campaign_name, timestamp) ==
  [id |-> ExtractJobId(item.link, timestamp), url |-> item.link, campaign |-> campaign_name]

\* The second in which item i is read, when the second changes before item
\* tick (0: it does not change while the feed is parsed).
Stamp(i, tick, start) == IF tick # 0 /\ i >= tick THEN start + 1 ELSE start

\* _parse_rss_feed: the jobs of the proper items; a document that cannot be
\* parsed gives the empty list.
ParseRssFeed(xml_content, campaign_name, tick, start) ==
  IF ParseError(CleanXml(xml_content)) THEN <<>>
  ELSE SubSeqAt([i \in 1..Len(xml_content.items) |->
                   UpworkJob(xml_content.items[i], campaign_name, Stamp(i, tick, start))],
                ProperItems(xml_content.items))

\* A printed line.
Line(text, campaign_name, count) == [line |-> text, campaign |-> campaign_name, count |-> count]

\* _search_campaign: what it returns and what it prints.  Any status but 200
\* raises, and every exception ends in "RSS error for <campaign>" and the
\* empty list.
FetchFailed(response) == response.kind = "exception" \/ response.status # 200

SearchOutcome(campaign_name, response, jobs) ==
  IF FetchFailed(response)
  THEN [jobs |-> <<>>,
        log |-> <<Line("Searching", campaign_name, 0), Line("RSS error for", campaign_name, 0)>>]
  ELSE [jobs |-> jobs,
        log |-> <<Line("Searching", campaign_name, 0)>>
                  \o (IF ParseError(CleanXml(response.xml))
                      THEN <<Line("XML parsing error", "", 0)>> ELSE <<>>)
                  \o <<Line("Found jobs for", campaign_name, Len(jobs))>>]

SearchCampaign(campaign_name, response, tick, start) ==
  SearchOutcome(campaign_name, response,
                ParseRssFeed(response.xml, campaign_name, tick, start))

\* run_upwork_campaign: the dictionary made of each job; its campaign is the
\* first configuration of the mode.
FormatJobs(jobs, campaign_config) ==
  [i \in 1..Len(jobs) |->
     [id |-> jobs[i].id, url |-> jobs[i].url, campaign |-> campaign_config[1]]]

\* search_jobs: the pause after a campaign's jobs were appended.  It follows
\* every return of _search_campaign, whatever the jobs.
SleepAfter_OnlyWhenJobsFound(campaign_jobs) == IF campaign_jobs = <<>> THEN 0 ELSE SleepSeconds

SleepAfter(campaign_jobs) == SleepSeconds

\* _deduplicate_jobs: the first job of each id, in order (the variant keeps
\* the last job of each id).
DeduplicateJobs_KeepsLast(jobs) == SubSeqAt(jobs, {i \in 1..Len(jobs) : \A j \in (i + 1)..Len(jobs) : jobs[j].id # jobs[i].id})

DeduplicateJobs(jobs) ==
  SubSeqAt(jobs, {i \in 1..Len(jobs) : \A j \in 1..(i - 1) : jobs[j].id # jobs[i].id})

\* ------------------------------------------------------ proposal generation
\* A text is kept as where it comes from (the hosted model or a template),
\* its length and its number of words (len(text.split())).
HostedModel == "claude-3-sonnet"

NoText == [origin |-> "none", template |-> "", chars |-> 0, words |-> 0]

\* Titles of jobs, and the default of getattr(job, 'title', 'this opportunity').
ProposalTitle == [chars |-> 14, words |-> 2]

DefaultTitle == [chars |-> 16, words |-> 2]

\* The jobs handed to create_proposal: an object with title and description,
\* one whose description is None, and a dictionary (no attributes at all).
ProposalJobs ==
  {[has_title |-> TRUE, title |-> ProposalTitle, description |-> "text"],
   [has_title |-> TRUE, title |-> ProposalTitle, description |-> "None"],
   [has_title |-> FALSE, title |-> DefaultTitle, description |-> "default"]}

\* Well-formed scores: every industry_match score_job can return.
ProposalScores ==
  {[fit_level |-> "High", confidence |-> 8, industry_match |-> m] :
     m \in {"scaling_startup", "operations_overhaul", "team_leadership", "sales_operations",
            "revenue_leadership", "strategic_consulting", "crisis_management",
            "No strong match"}}

\* The api_key of the generator: none configured, empty, or a key.
NoKey == "None"

ApiKeys == {NoKey, "", "sk-key"}

KeySet(api_key) == api_key # NoKey /\ api_key # ""

\* What the hosted model's endpoint answers: status 200 with a text (a
\* proposal, the empty string, blanks only), status 200 with a body without
\* content, another status, or an exception of the transport.
Replies ==
  {[kind |-> "ok", text |-> [origin |-> "hosted", template |-> "", chars |-> 900, words |-> 140]],
   [kind |-> "ok", text |-> [origin |-> "hosted", template |-> "", chars |-> 0, words |-> 0]],
   [kind |-> "ok", text |-> [origin |-> "hosted", template |-> "", chars |-> 3, words |-> 0]],
   [kind |-> "no_content", text |-> NoText],
   [kind |-> "status", text |-> NoText],
   [kind |-> "exception", text |-> NoText]}

\* The templates: length and words without the title, and whether the title
\* is written into the text.
ProposalTemplates ==
  [scaling_startup |-> [name |-> "_startup_template", chars |-> 1957, words |-> 257, titled |-> FALSE],
   operations_overhaul |-> [name |-> "_operations_template", chars |-> 839, words |-> 120, titled |-> TRUE],
   revenue_leadership |-> [name |-> "_revenue_template", chars |-> 1766, words |-> 234, titled |-> FALSE],
   strategic_consulting |-> [name |-> "_strategic_template", chars |-> 1900, words |-> 250, titled |-> FALSE],
   team_leadership |-> [name |-> "_executive_coaching_template", chars |-> 2068, words |-> 268, titled |-> FALSE],
   crisis_management |-> [name |-> "_crisis_template", chars |-> 839, words |-> 116, titled |-> TRUE]]

GeneralTemplate == [name |-> "_general_template", chars |-> 789, words |-> 107, titled |-> TRUE]

TemplateText(template, job_title) ==
  [origin |-> "template", template |-> template.name,
   chars |-> template.chars + (IF template.titled THEN job_title.chars ELSE 0),
   words |-> template.words + (IF template.titled THEN job_title.words ELSE 0)]

\* _generate_fallback_proposal: the template of the score's industry_match,
\* the general one for any other match.
GenerateFallbackProposal(job, icp_score) ==
  TemplateText(IF icp_score.industry_match \in DOMAIN ProposalTemplates
               THEN ProposalTemplates[icp_score.industry_match] ELSE GeneralTemplate,
               job.title)

\* _call_claude_api: the text of a 200 answer; None without key, on another
\* status and on any exception (a body without content raises KeyError).
CallClaudeApi(api_key, reply) ==
  IF KeySet(api_key) /\ reply.kind = "ok" THEN reply.text ELSE NoText

\* not proposal_text: None and the empty string.
Falsy_Text(text) == text.chars = 0

\* _build_proposal_prompt slices the description: None[:500] raises.
PromptRaises(job) == job.description = "None"

\* create_proposal: the text that is returned, the hosted model's unless it
\* is None or empty.
ProposalText_NoFallback(api_text, job, icp_score) == api_text

ProposalText(api_text, job, icp_score) ==
  IF Falsy_Text(api_text) THEN GenerateFallbackProposal(job, icp_score) ELSE api_text

\* create_proposal: the dictionary of the try branch.
ProposalOf(api_key, proposal_text, icp_score) ==
  [proposal_text |-> proposal_text, word_count |-> proposal_text.words,
   model_used |-> IF KeySet(api_key) THEN HostedModel ELSE "template",
   icp_score |-> icp_score.fit_level, industry_match |-> icp_score.industry_match,
   confidence |-> icp_score.confidence, error |-> FALSE]

\* create_proposal: the dictionary of the except branch.
FallbackProposalOf(fallback_text, icp_score) ==
  [proposal_text |-> fallback_text, word_count |-> fallback_text.words,
   model_used |-> "fallback_template",
   icp_score |-> icp_score.fit_level, industry_match |-> "", confidence |-> 0,
   error |-> TRUE]

CreateProposal(api_key, job, icp_score, reply) ==
  IF PromptRaises(job)
  THEN FallbackProposalOf(GenerateFallbackProposal(job, icp_score), icp_score)
  ELSE ProposalOf(api_key, ProposalText(CallClaudeApi(api_key, reply), job, icp_score),
                  icp_score)

\* ------------------------------------------------------------------- state
\* The outcomes of the remote calls a handler makes for url, in call order:
\* the cache refresh (only when the cache was never refreshed), the per-URL
\* query (only on a cache miss) and the write.  A call that is not made has no
\* outcome ("ok" stands in), and the result order only matters when the
\* tracker holds several pages for one URL.
Remote(url, rOut, qOut, ord) ==
  /\ cacheRefreshed => rOut = "ok"
  /\ url \in DOMAIN RefreshCache(cache, cacheRefreshed, pages, monthStart,
                                  IF cacheRefreshed THEN "err" ELSE rOut, ord).cache
       => qOut = "ok"
  /\ (\A i, j \in 1..Len(pages) : pages[i].url = pages[j].url => i = j) => ord = "asc"

NoOp ==
  [op |-> "init", args |-> <<>>, url |-> <<>>, lookup |-> "none", path |-> "none",
   write |-> "none", retId |-> NoneId, retOk |-> FALSE, repeat |-> FALSE]

\* A store just constructed, before any call.
StoreInit ==
  /\ pages = <<>>
  /\ cache = EmptyCache
  /\ cacheRefreshed = FALSE
  /\ clock = 1
  /\ monthStart = 0
  /\ lastOp = NoOp
  /\ submitted = [u \in Urls |-> {}]
  /\ anyFail = FALSE

\* A classifier just constructed with the given catalog and the listing it is
\* about to be given, before any call.
ScorerInit(profiles, job) ==
  /\ icp_profiles = profiles
  /\ listing = job
  /\ scored = <<>>

\* A budget text about to be handed to the extractors.
BudgetInit(text) ==
  /\ raw_budget = text
  /\ extracted = [feed |-> <<>>, tile |-> <<>>, feed_number |-> <<>>, tile_number |-> <<>>]

\* No campaign launched: campaign_running is False and nothing was searched.
RunInit ==
  /\ run = [status |-> "Idle", campaign_running |-> FALSE, mode |-> "", campaigns |-> <<>>,
            next |-> 1, all_jobs |-> <<>>, log |-> <<>>, searched |-> <<>>,
            result |-> <<>>, formatted_jobs |-> <<>>]
  /\ wall = StartTime

\* A generator with its key, and the job and score it is asked about; no
\* proposal made yet.
GeneratorInit(api_key, job, icp_score) ==
  /\ generator = [api_key |-> api_key, job |-> job, icp_score |-> icp_score]
  /\ proposals = <<>>

\* The store with an idle classifier (no listing handed over) and idle
\* extractors.
Init ==
  /\ StoreInit
  /\ ScorerInit(ICPProfiles, <<>>)
  /\ BudgetInit(<<>>)
  /\ RunInit
  /\ GeneratorInit(NoKey, <<>>, <<>>)

\* Every discovery handed to the store: a parsed item, its score and the
\* campaign that found it.
Discoveries ==
  { [job |-> ParseJobTile(t), score |-> MakeICPScore(t.score2), campaign |-> c] :
      t \in RawTiles, c \in Campaigns }

\* The discoveries of the full store specification: one posting seen under
\* its plain URL, with a weaker score by one campaign and a
\* stronger score by the other.
KeyDiscoveries ==
  { d \in Discoveries :
      /\ d.job.url.track = 0
      /\ \/ d.score.confidence = 10 /\ d.campaign = "executive_suite"
         \/ d.score.confidence = 16 /\ d.campaign = "high_value" }

KeyUrls == { d.job.url : d \in KeyDiscoveries }

\* A caller awaits log_job_opportunity(job, icp_score, campaign_name).
UpsertFrom(discoveries) ==
  \E d \in discoveries, rOut \in Outcomes, qOut \in Outcomes, wOut \in Outcomes, ord \in Orders :
    /\ clock <= MaxClock
    /\ Remote(d.job.url, rOut, qOut, ord)
    /\ LET job == d.job
           score == d.score
           campaign == d.campaign
           r == LogJobOpportunity(pages, cache, cacheRefreshed, monthStart, job, score,
                                  campaign, clock, rOut, qOut, wOut, ord)
       IN /\ pages' = r.pages
          /\ cache' = r.cache
          /\ cacheRefreshed' = r.refreshed
          /\ lastOp' = [op |-> "log_job_opportunity", args |-> <<job, score, campaign>>,
                        url |-> <<job.url>>, lookup |-> r.lookup, path |-> r.path,
                        write |-> IF wOut = "ok" THEN "ok" ELSE "failed",
                        retId |-> r.ret, retOk |-> FALSE,
                        repeat |-> /\ lastOp.op = "log_job_opportunity"
                                   /\ lastOp.args = <<job, score, campaign>>
                                   /\ lastOp.write = "ok"
                                   /\ wOut = "ok"]
          /\ anyFail' = (anyFail \/ r.failed \/ wOut # "ok")
    /\ submitted' = [submitted EXCEPT ![d.job.url] =
                       @ \cup {[confidence |-> d.score.confidence, campaign |-> d.campaign]}]
    /\ clock' = clock + 1
    /\ UNCHANGED <<monthStart, nonStoreVars>>

\* A caller awaits mark_job_status(job_url, status).
MarkStatus ==
  \E url \in KeyUrls, status \in StatusInputs,
     rOut \in Outcomes, qOut \in Outcomes, wOut \in Outcomes, ord \in Orders :
    /\ clock <= MaxClock
    /\ Remote(url, rOut, qOut, ord)
    /\ LET r == MarkJobStatus(pages, cache, cacheRefreshed, monthStart, url, status,
                              clock, rOut, qOut, wOut, ord)
       IN /\ pages' = r.pages
          /\ cache' = r.cache
          /\ cacheRefreshed' = r.refreshed
          /\ lastOp' = [op |-> "mark_job_status", args |-> <<url, status>>,
                        url |-> <<url>>, lookup |-> r.lookup, path |-> "none",
                        write |-> r.write, retId |-> r.target, retOk |-> r.ok,
                        repeat |-> FALSE]
          /\ anyFail' = (anyFail \/ r.failed)
    /\ clock' = clock + 1
    /\ UNCHANGED <<monthStart, submitted, nonStoreVars>>

\* A caller awaits log_proposal(job, proposal_data, icp_score).
Proposal ==
  \E url \in KeyUrls, pd \in ProposalData,
     rOut \in Outcomes, qOut \in Outcomes, wOut \in Outcomes, ord \in Orders :
    /\ clock <= MaxClock
    /\ Remote(url, rOut, qOut, ord)
    /\ LET r == LogProposal(pages, cache, cacheRefreshed, monthStart, url, pd,
                            clock, rOut, qOut, wOut, ord)
       IN /\ pages' = r.pages
          /\ cache' = r.cache
          /\ cacheRefreshed' = r.refreshed
          /\ lastOp' = [op |-> "log_proposal", args |-> <<url, pd>>,
                        url |-> <<url>>, lookup |-> r.lookup, path |-> "none",
                        write |-> r.write, retId |-> r.target, retOk |-> FALSE,
                        repeat |-> FALSE]
          /\ anyFail' = (anyFail \/ r.failed)
    /\ clock' = clock + 1
    /\ UNCHANGED <<monthStart, submitted, nonStoreVars>>

\* NotionLoggerDedup(...) is constructed again (update_job_status and
\* get_pipeline_stats build a fresh logger per call): empty cache.
NewInstance ==
  /\ lastOp.op # "init"
  /\ cache' = EmptyCache
  /\ cacheRefreshed' = FALSE
  /\ lastOp' = NoOp
  /\ UNCHANGED <<pages, clock, monthStart, submitted, anyFail, nonStoreVars>>

\* The calendar month changes: datetime.now().replace(day=1) moves past every
\* page added so far.  The month is only read by a cache refresh, so the
\* change is taken when a refresh is still due and pages exist.
NewMonth ==
  /\ ~cacheRefreshed
  /\ pages # <<>>
  /\ monthStart < clock - 1
  /\ monthStart' = clock - 1
  /\ UNCHANGED <<pages, cache, cacheRefreshed, clock, lastOp, submitted, anyFail, nonStoreVars>>

\* Another campaign run begins on the instance the previous run used: the
\* class has no call that empties _existing_jobs_cache or clears
\* _cache_refreshed, so the instance enters the run as the last one left it.
StartRun ==
  /\ lastOp.op \notin {"init", "run_start"}
  /\ lastOp' = [NoOp EXCEPT !.op = "run_start"]
  /\ UNCHANGED <<pages, cache, cacheRefreshed, clock, monthStart, submitted, anyFail, nonStoreVars>>

Upsert == UpsertFrom(Discoveries)

NextUpsert == Upsert

SpecUpsert == Init /\ [][NextUpsert]_vars

\* The store with all its operations.
Rediscover == UpsertFrom(KeyDiscoveries)

Next == Rediscover \/ MarkStatus \/ Proposal \/ NewInstance \/ NewMonth

Spec == Init /\ [][Next]_vars

\* One instance serving run after run, or replaced by a new one.
NextReuse == Rediscover \/ StartRun \/ NewInstance

SpecReuse == Init /\ [][NextReuse]_vars

\* ------------------------------------------------------------ scorer calls
\* A caller awaits classifier.score_job(listing).  The record kept of the call
\* notes whether the listing was scored before, and what that call returned.
Score ==
  \E r \in {ScoreJob(listing, icp_profiles)} :
    /\ icp_profiles' = r.icp_profiles
    /\ scored' = <<[job |-> listing, score |-> r.score, best_match |-> r.best_match,
                    best_score |-> r.best_score, profile_scores |-> r.profile_scores,
                    before |-> IF scored = <<>> THEN <<>>
                               ELSE <<[score |-> scored[1].score,
                                       best_match |-> scored[1].best_match,
                                       best_score |-> scored[1].best_score]>>]>>
    /\ UNCHANGED <<listing, storeVars, budgetVars, runVars, proposalVars>>

\* The scorer alone: any catalog, any listing.
InitScore ==
  /\ StoreInit
  /\ BudgetInit(<<>>)
  /\ RunInit
  /\ GeneratorInit(NoKey, <<>>, <<>>)
  /\ \E profiles \in Catalogs, job \in Listings : ScorerInit(profiles, job)

NextScore == Score

SpecScore == InitScore /\ [][NextScore]_vars

\* -------------------------------------------------------- extractor calls
\* _parse_rss_feed hands an item's description to _extract_budget_info.
FeedBudget ==
  /\ extracted' = [extracted EXCEPT !.feed = <<ExtractBudgetInfo(raw_budget)>>]
  /\ UNCHANGED <<raw_budget, storeVars, scorerVars, runVars, proposalVars>>

\* parse_job_tile hands a tile's text to _extract_budget_from_text.
TileBudget ==
  /\ extracted' = [extracted EXCEPT !.tile = <<ExtractBudgetFromText(raw_budget)>>]
  /\ UNCHANGED <<raw_budget, storeVars, scorerVars, runVars, proposalVars>>

\* The classifier reads the number of the feed job's budget.
FeedBudgetNumber ==
  /\ extracted.feed # <<>>
  /\ extracted' = [extracted EXCEPT
                     !.feed_number = <<ExtractBudgetNumber(extracted.feed[1].budget_text)>>]
  /\ UNCHANGED <<raw_budget, storeVars, scorerVars, runVars, proposalVars>>

\* The classifier reads the number of the tile job's budget.
TileBudgetNumber ==
  /\ extracted.tile # <<>>
  /\ extracted' = [extracted EXCEPT
                     !.tile_number = <<ExtractBudgetNumber(extracted.tile[1])>>]
  /\ UNCHANGED <<raw_budget, storeVars, scorerVars, runVars, proposalVars>>

\* The budget extractors alone: any budget text.
InitBudget ==
  /\ StoreInit
  /\ ScorerInit(ICPProfiles, <<>>)
  /\ RunInit
  /\ GeneratorInit(NoKey, <<>>, <<>>)
  /\ \E text \in BudgetTexts : BudgetInit(text)

NextBudget == FeedBudget \/ TileBudget \/ FeedBudgetNumber \/ TileBudgetNumber

SpecBudget == InitBudget /\ [][NextBudget]_vars

\* ------------------------------------------------------------ campaign run
\* run_campaign_simulation sets campaign_running and run_upwork_campaign
\* picks the configurations of the mode.
LaunchCampaign ==
  /\ run.status = "Idle"
  /\ \E mode \in Modes :
       run' = [run EXCEPT !.status = "Running", !.campaign_running = TRUE,
                          !.mode = mode, !.campaigns = CampaignConfig(mode)]
  /\ UNCHANGED <<wall, storeVars, scorerVars, budgetVars, proposalVars>>

\* search_jobs, one turn of the loop: the campaign is searched, its jobs are
\* appended and the loop sleeps.  _search_campaign catches every exception
\* itself, so the loop's own except branch is never entered.  searched keeps
\* what each campaign was answered, what it contributed and the second of
\* its fetch, and whether campaign_running was still set then.  The loop
\* reads no flag.
SearchJobs ==
  /\ run.status = "Running"
  /\ run.next <= Len(run.campaigns)
  /\ \E response \in Responses :
       \E tick \in 0..(IF FetchFailed(response) \/ ParseError(CleanXml(response.xml))
                       THEN 0 ELSE Len(response.xml.items)) :
         \E r \in {SearchCampaign(run.campaigns[run.next], response, tick, wall)} :
           /\ run' = [run EXCEPT
                        !.all_jobs = @ \o r.jobs,
                        !.log = @ \o r.log,
                        !.searched = Append(@, [campaign |-> run.campaigns[run.next],
                                                response |-> response, jobs |-> r.jobs,
                                                at |-> wall,
                                                campaign_running |-> run.campaign_running]),
                        !.next = @ + 1]
           /\ wall' = wall + (IF tick # 0 THEN 1 ELSE 0) + SleepAfter(r.jobs)
  /\ UNCHANGED <<storeVars, scorerVars, budgetVars, proposalVars>>

\* search_jobs returns the deduplicated jobs, run_upwork_campaign formats
\* them, and run_campaign_simulation reports "Campaign completed" and clears
\* campaign_running.
ReturnJobs ==
  /\ run.status = "Running"
  /\ run.next > Len(run.campaigns)
  /\ \E jobs \in {DeduplicateJobs(run.all_jobs)} :
       run' = [run EXCEPT !.status = "Completed", !.campaign_running = FALSE,
                          !.result = jobs,
                          !.formatted_jobs = FormatJobs(jobs, run.campaigns)]
  /\ UNCHANGED <<wall, storeVars, scorerVars, budgetVars, proposalVars>>

\* The Stop Campaign button clears campaign_running.
StopCampaign ==
  /\ run.status = "Running"
  /\ run.campaign_running
  /\ run' = [run EXCEPT !.campaign_running = FALSE]
  /\ UNCHANGED <<wall, storeVars, scorerVars, budgetVars, proposalVars>>

\* One campaign run, any mode, any answers of the feed.
InitRun == Init

NextRun == LaunchCampaign \/ SearchJobs \/ ReturnJobs \/ StopCampaign

SpecRun == InitRun /\ [][NextRun]_vars

\* ----------------------------------------------------------- proposal call
\* create_proposal for the job and score at hand, the endpoint answering in
\* any way; the answer is kept beside the result.
Propose ==
  /\ generator.job # <<>>
  /\ \E reply \in Replies :
       proposals' = <<[reply |-> reply,
                       called |-> KeySet(generator.api_key) /\ ~PromptRaises(generator.job),
                       result |-> CreateProposal(generator.api_key, generator.job,
                                                 generator.icp_score, reply)]>>
  /\ UNCHANGED <<generator, storeVars, scorerVars, budgetVars, runVars>>

\* The generator alone: any key, job and well-formed score.
InitProposal ==
  /\ StoreInit
  /\ ScorerInit(ICPProfiles, <<>>)
  /\ BudgetInit(<<>>)
  /\ RunInit
  /\ \E api_key \in ApiKeys, job \in ProposalJobs, icp_score \in ProposalScores :
       GeneratorInit(api_key, job, icp_score)

NextProposal == Propose

SpecProposal == InitProposal /\ [][NextProposal]_vars

\* ================================================================ properties
PagesFor(u) == {i \in PageIds : pages[i].url = u}

PagesOfPosting(p) == {i \in PageIds : TileJobId(pages[i].url) = p}

MaxOf(S) == CHOOSE x \in S : \A y \in S : y <= x

\* The confidences submitted so far for a set of URLs.
SubmittedConfidences(us) == {x.confidence : x \in UNION {submitted[u] : u \in us}}

IsUpsert(op) == op.op = "log_job_opportunity"

\* The three score fields of a page / of a submitted score, on the stored scale.
ScoreFields(page) == <<page.confidence, page.fit_level, page.industry_match>>

ScoreFieldsOf(score) == <<StoredConfidence(score), score.fit_level, score.industry_match>>

\* Everything a page stores except Last Seen and Status.
FrameFields(page) ==
  [f \in DOMAIN page \ {"last_seen", "status"} |-> page[f]]

\* C1: as long as every remote call has succeeded, the tracker holds exactly
\* one entry for every URL that was upserted and none for any other URL.
C1_OneEntryPerUrl ==
  ~anyFail =>
    \A u \in Urls : Cardinality(PagesFor(u)) = IF submitted[u] = {} THEN 0 ELSE 1

\* C1 witness: a second upsert of a URL was merged into its only entry.
C1_Witness ==
  /\ ~anyFail
  /\ IsUpsert(lastOp) /\ lastOp.path = "merge"
  /\ Cardinality(submitted[lastOp.url[1]]) = 2
  /\ Cardinality(PagesFor(lastOp.url[1])) = 1

\* C2 (as claimed): with every remote call successful, each entry's stored
\* confidence is the greatest confidence submitted for its URL (both read on
\* the 0..100 scale).
C2_StoredIsMax ==
  ~anyFail =>
    \A i \in PageIds :
      pages[i].confidence = MaxOf(SubmittedConfidences({pages[i].url})) * PercentPerUnit

\* C3 (as claimed): an upsert never changes a status other than Prospecting
\* or Updated.
C3_StatusSticky ==
  [][(IsUpsert(lastOp') /\ clock' = clock + 1) =>
       \A i \in PageIds :
         pages[i].status \notin {"Prospecting", "Updated"}
           => pages'[i].status = pages[i].status]_vars

\* C4 (as claimed): repeating the previous successful upsert with the same
\* listing, score and campaign changes nothing but Last Seen.
C4_OnlyLastSeenChanges ==
  [][(lastOp'.repeat /\ clock' = clock + 1) =>
       /\ Len(pages') = Len(pages)
       /\ \A i \in PageIds :
            [f \in DOMAIN pages[i] \ {"last_seen"} |-> pages'[i][f]]
              = [f \in DOMAIN pages[i] \ {"last_seen"} |-> pages[i][f]]]_vars

\* C4 (amended): repeating the previous successful upsert creates no entry and
\* changes only Last Seen and, for an entry still Prospecting, the status,
\* which becomes Updated.
C4_RepeatChangesLastSeenAndOpenStatus ==
  [][(lastOp'.repeat /\ clock' = clock + 1) =>
       /\ Len(pages') = Len(pages)
       /\ \A i \in PageIds :
            /\ FrameFields(pages'[i]) = FrameFields(pages[i])
            /\ \/ pages'[i].status = pages[i].status
               \/ pages[i].status = "Prospecting" /\ pages'[i].status = "Updated"
       /\ pages'[lastOp'.retId].last_seen = clock]_vars

\* C4 witness: the repeated upsert refreshed Last Seen of an entry that the
\* first upsert had created, and moved it to Updated.
C4_Witness ==
  /\ lastOp.repeat
  /\ pages[lastOp.retId].last_seen = clock - 1
  /\ pages[lastOp.retId].date_added = clock - 2
  /\ pages[lastOp.retId].status = "Updated"

\* C5 (as claimed): a successful merge takes over the new score fields exactly
\* when the new confidence is strictly greater than the stored one.
C5_StrictImprovementOnly ==
  [][(IsUpsert(lastOp') /\ lastOp'.path = "merge" /\ lastOp'.write = "ok"
        /\ clock' = clock + 1) =>
       LET i == lastOp'.retId
           new == lastOp'.args[2]
       IN IF StoredConfidence(new) > pages[i].confidence
          THEN ScoreFields(pages'[i]) = ScoreFieldsOf(new)
          ELSE ScoreFields(pages'[i]) = ScoreFields(pages[i])]_vars

\* C6 (as claimed): once a posting has been upserted under two URLs that
\* differ only in the tracking parameter, by different campaigns (all remote
\* calls successful), the tracker holds one entry for the posting, tagged with
\* the later campaign and carrying the greater of the submitted confidences.
C6_TrackingVariantsMerge ==
  (/\ ~anyFail
   /\ IsUpsert(lastOp)
   /\ \E u \in Urls : /\ u # lastOp.url[1]
                      /\ TileJobId(u) = TileJobId(lastOp.url[1])
                      /\ \E x \in submitted[u] : x.campaign # lastOp.args[3])
    => LET same == {u \in Urls : TileJobId(u) = TileJobId(lastOp.url[1])}
           held == PagesOfPosting(TileJobId(lastOp.url[1]))
       IN /\ Cardinality(held) = 1
          /\ \A i \in held :
               /\ pages[i].campaign = lastOp.args[3]
               /\ pages[i].confidence = MaxOf(SubmittedConfidences(same)) * PercentPerUnit

\* C7 (as claimed): after a successful upsert the entry carries the campaign
\* just passed and a Last Seen of that upsert.
C7_CampaignAndLastSeen ==
  (IsUpsert(lastOp) /\ lastOp.write = "ok") =>
    /\ pages[lastOp.retId].campaign = lastOp.args[3]
    /\ pages[lastOp.retId].last_seen = clock - 1

\* C7 (amended): after a successful upsert the entry carries the campaign just
\* passed; a merge also sets Last Seen to the time of the upsert, a create sets
\* Date Added instead and leaves Last Seen unset.
C7_CampaignAlwaysLastSeenOnMerge ==
  (IsUpsert(lastOp) /\ lastOp.write = "ok") =>
    /\ pages[lastOp.retId].url = lastOp.url[1]
    /\ pages[lastOp.retId].campaign = lastOp.args[3]
    /\ lastOp.path = "merge" => pages[lastOp.retId].last_seen = clock - 1
    /\ lastOp.path = "create" => /\ pages[lastOp.retId].date_added = clock - 1
                                 /\ pages[lastOp.retId].last_seen = NoneNum

\* C7 witness: a merge that took over neither the score nor the status still
\* moved the campaign tag and Last Seen.
C7_Witness ==
  /\ IsUpsert(lastOp) /\ lastOp.write = "ok" /\ lastOp.path = "merge"
  /\ pages[lastOp.retId].confidence # StoredConfidence(lastOp.args[2])
  /\ pages[lastOp.retId].campaign = lastOp.args[3]
  /\ pages[lastOp.retId].last_seen = clock - 1
  /\ \E j \in PageIds : pages[j].campaign # lastOp.args[3]

\* C8 (as claimed): an upsert whose remote write failed returns None.
C8_WriteFailureVisible ==
  (IsUpsert(lastOp) /\ lastOp.write = "failed") => lastOp.retId = NoneId

\* C9: an upsert whose duplicate check failed goes down the create path, and
\* when that create succeeds the listing is stored as a new entry.
C9_FailedLookupCreates ==
  (IsUpsert(lastOp) /\ lastOp.lookup = "failed") =>
    /\ lastOp.path = "create"
    /\ lastOp.write = "ok" =>
         /\ lastOp.retId = Len(pages)
         /\ pages[lastOp.retId].url = lastOp.url[1]
         /\ pages[lastOp.retId].date_added = clock - 1

\* C9 witness: a failed duplicate check for a URL that already had an entry
\* ended in a second entry for it.
C9_Witness ==
  /\ IsUpsert(lastOp) /\ lastOp.lookup = "failed" /\ lastOp.write = "ok"
  /\ Cardinality(PagesFor(lastOp.url[1])) = 2

\* C10: mark_job_status for a URL without an entry returns False, writes
\* nothing and leaves the tracker as it was; when it patches an entry
\* successfully it returns True and that entry, stored under the URL, has the
\* requested status.
C10_MarkStatusResult ==
  [][(lastOp'.op = "mark_job_status" /\ clock' = clock + 1) =>
       LET u == lastOp'.url[1]
       IN /\ PagesFor(u) = {} =>
               /\ ~lastOp'.retOk
               /\ lastOp'.write = "none"
               /\ pages' = pages
          /\ lastOp'.write = "ok" =>
               /\ lastOp'.retOk
               /\ lastOp'.retId \in PagesFor(u)
               /\ pages'[lastOp'.retId].status = lastOp'.args[2]
          /\ lastOp'.retOk => lastOp'.write = "ok"]_vars

\* C10 witness: a status change that succeeded on an existing entry.
C10_Witness ==
  /\ lastOp.op = "mark_job_status" /\ lastOp.retOk
  /\ pages[lastOp.retId].status = lastOp.args[2]
  /\ pages[lastOp.retId].status_updated = clock - 1

\* C11 (as claimed): every entry's status is one of the six status values, and
\* an entry just created is Prospecting.
C11_StatusVocabulary ==
  /\ \A i \in PageIds :
       pages[i].status \in { "Prospecting", "Updated", "Proposal Submitted",
                             "Interview", "Won", "Lost" }
  /\ (IsUpsert(lastOp) /\ lastOp.path = "create" /\ lastOp.write = "ok")
       => pages[lastOp.retId].status = "Prospecting"

\* ------------------------------------------------------------ scorer claims
\* The positions of the profiles whose score in a list of scores is the
\* greatest.
TopProfiles(scores) == {k \in 1..Len(scores) : \A j \in 1..Len(scores) : scores[j] <= scores[k]}

Earliest(S) == CHOOSE k \in S : \A j \in S : k <= j

C13_NoMatchIsLowZero ==
  (/\ scored # <<>>
   /\ \/ icp_profiles = <<>>
      \/ \A k \in 1..Len(scored[1].profile_scores) : scored[1].profile_scores[k] <= 0)
    => /\ scored[1].best_match = 0
       /\ scored[1].score.industry_match = "No strong match"
       /\ scored[1].score.fit_level = "Low"
       /\ scored[1].score.confidence = 0

\* C13 witness: a listing scored 0 against every profile of a catalog that is
\* not empty and came back without a match.
C13_Witness ==
  /\ scored # <<>>
  /\ icp_profiles # <<>>
  /\ \A k \in 1..Len(icp_profiles) : scored[1].profile_scores[k] = 0
  /\ scored[1].score.industry_match = "No strong match"
  /\ scored[1].score.confidence = 0

\* C14: fit level and confidence are functions of the winning raw score alone
\* (in half points: High from 14, Medium from 10 to 13, else Low; confidence
\* min(raw / 10, 1), in twentieths min(raw2, 20)), so that the fit level is
\* High exactly when the confidence is at least 0.7.
C14_TierAndConfidenceFromRaw ==
  scored # <<>> =>
    LET raw2 == scored[1].best_score
        sc == scored[1].score
    IN /\ sc.fit_level = "High" <=> raw2 >= 14
       /\ sc.fit_level = "Medium" <=> (10 <= raw2 /\ raw2 < 14)
       /\ sc.fit_level = "Low" <=> raw2 < 10
       /\ sc.confidence = IF raw2 <= 20 THEN raw2 ELSE 20
       /\ sc.fit_level = "High" <=> sc.confidence >= 14

\* C14 witness: a raw score of exactly 7 gave High with confidence 0.7.
C14_Witness ==
  /\ scored # <<>>
  /\ scored[1].best_score = 14
  /\ scored[1].score.fit_level = "High"
  /\ scored[1].score.confidence = 14

\* The phrases of a list found in a text.
Found(phrases, text) == {i \in 1..Len(phrases) : Contains(text, phrases[i])}

\* C15: every profile's score is 1.5 per keyword found in the lowercased
\* title and description, 2 per pain point, 1 per company-size signal, the
\* budget term (2 inside the profile's range, 1 at or above its minimum but
\* outside, 0 below or without a number), 1 for any duration signal, 3 for
\* military or veteran, 1 for any leadership term (all in half points here).
C15_ProfileScoreFormula ==
  scored # <<>> =>
    \A k \in 1..Len(icp_profiles) :
      LET pr == icp_profiles[k]
          text == JobText(scored[1].job)
          num == ExtractBudgetNumber(scored[1].job.budget)
          budget == IF num = NoneNum \/ num < pr.budget_range[1] THEN 0
                    ELSE IF num <= pr.budget_range[2] THEN 4 ELSE 2
          flag(phrases, points) == IF Found(phrases, text) # {} THEN points ELSE 0
      IN scored[1].profile_scores[k]
           = 3 * Cardinality(Found(pr.keywords, text))
             + 4 * Cardinality(Found(pr.pain_points, text))
             + 2 * Cardinality(Found(pr.company_size, text))
             + budget
             + flag(pr.ideal_duration, 2)
             + flag(MilitaryTerms, 6)
             + flag(LeadershipTerms, 2)

\* C15 witness: a profile found two of its company-size signals and a budget
\* above its range in a listing, and its score counts both signals and one
\* point for the budget.
C15_Witness ==
  /\ scored # <<>>
  /\ \E k \in 1..Len(icp_profiles) :
       /\ Cardinality(Found(icp_profiles[k].company_size, JobText(scored[1].job))) = 2
       /\ ExtractBudgetNumber(scored[1].job.budget) > icp_profiles[k].budget_range[2]
       /\ scored[1].profile_scores[k] >= 2 * 2 + 2

C17_BudgetScenario ==
  extracted.feed # <<>> =>
    /\ raw_budget = <<"$", "8", "0", "-", "$", "1", "2", "0", "/", "h", "r">>
         => /\ extracted.feed[1].budget_type = "hourly"
            /\ extracted.feed[1].min_rate = 80
            /\ extracted.feed[1].max_rate = 120
    /\ raw_budget = <<"F", "i", "x", "e", "d", " ", "p", "r", "i", "c", "e", " ", "$", "5", ",", "0", "0", "0">>
         => /\ extracted.feed[1].budget_type = "fixed"
            /\ extracted.feed[1].amount = 5000
    /\ raw_budget = <<"n", "e", "g", "o", "t", "i", "a", "b", "l", "e">>
         => extracted.feed[1].budget_type = "unknown"

\* C18 (as claimed): a campaign answered with XML that cannot be parsed gets
\* an empty result that carries a failure marker, so its result differs from
\* that of a campaign answered with a well-formed feed without listings.
C18_ParseFailureMarked ==
  \A i, j \in 1..Len(run.searched) :
    ( /\ ~FetchFailed(run.searched[i].response)
      /\ ParseError(CleanXml(run.searched[i].response.xml))
      /\ ~FetchFailed(run.searched[j].response)
      /\ ~ParseError(CleanXml(run.searched[j].response.xml))
      /\ run.searched[j].response.xml.items = <<>> )
    => /\ run.searched[i].jobs # run.searched[j].jobs
       /\ Len(run.searched[i].jobs) = 0

\* C19 (as claimed): when the fetch of a configuration failed, the run still
\* searched every configuration, the failed one contributed no listing, and
\* every listing any other configuration discovered is in the returned batch.
C19_OthersListingsPresent ==
  ( /\ run.status = "Completed"
    /\ \E f \in 1..Len(run.searched) : FetchFailed(run.searched[f].response) )
  => /\ Len(run.searched) = Len(run.campaigns)
     /\ \A i \in 1..Len(run.searched) :
          /\ FetchFailed(run.searched[i].response) => run.searched[i].jobs = <<>>
          /\ \A k \in 1..Len(run.searched[i].jobs) :
               \E r \in 1..Len(run.result) : run.result[r].url = run.searched[i].jobs[k].url

\* C20 (as claimed): a run is Idle, Running, Completed or Failed; a run that
\* ended after at least one configuration succeeded is Completed and the
\* failures it lists name exactly the configurations that failed; a run is
\* Failed only when every configuration failed.
C20_RunOutcome ==
  LET failed == {i \in 1..Len(run.searched) :
                   \/ FetchFailed(run.searched[i].response)
                   \/ ParseError(CleanXml(run.searched[i].response.xml))}
      listed == {run.log[l].campaign : l \in {n \in 1..Len(run.log) :
                   run.log[n].line \in {"RSS error for", "Campaign failed"}}}
  IN /\ run.status \in {"Idle", "Running", "Completed", "Failed"}
     /\ ( /\ run.status \in {"Completed", "Failed"}
          /\ failed # 1..Len(run.searched) )
        => /\ run.status = "Completed"
           /\ listed = {run.searched[i].campaign : i \in failed}
     /\ run.status = "Failed" => failed = 1..Len(run.searched)

\* C21 (as claimed): when a run has returned a batch with listings, the
\* scorer has scored and the store holds entries: no listing is returned
\* before it was scored and upserted.
C21_BatchScoredAndStored ==
  (run.status = "Completed" /\ run.result # <<>>)
    => /\ scored # <<>>
       /\ Len(pages) >= 1

\* C22: between two consecutive fetches of a run the loop has slept, also
\* when the earlier fetch failed.
C22_DelayBetweenFetches ==
  \A i \in 1..(Len(run.searched) - 1) :
    run.searched[i + 1].at >= run.searched[i].at + SleepSeconds

\* C22 witness: a fetch that failed, followed by the fetch of the next
\* configuration.
C22_Witness ==
  \E i \in 1..(Len(run.searched) - 1) :
    /\ FetchFailed(run.searched[i].response)
    /\ run.searched[i + 1].at >= run.searched[i].at + SleepSeconds

\* C23 (as claimed): once the stop request has cleared the flag, at most the
\* configuration in flight is completed: no two configurations of a run are
\* processed with the flag cleared.
C23_StopObserved ==
  Cardinality({i \in 1..Len(run.searched) : ~run.searched[i].campaign_running}) <= 1

\* C24 (as claimed): a run launched in one of the modes full, executive,
\* strategic, coaching and quick searches the non-empty configurations the
\* mode table holds for that mode, and a run in any other mode searches the
\* configurations of 'quick'.
C24_ModeTable ==
  run.status # "Idle" =>
    IF run.mode \in {"full", "executive", "strategic", "coaching", "quick"}
    THEN /\ run.mode \in DOMAIN CampaignModes
         /\ run.campaigns # <<>>
         /\ run.campaigns = CampaignModes[run.mode]
    ELSE run.campaigns = CampaignModes["quick"]

\* C25 (as claimed): every listing of the returned batch carries as campaign
\* a configuration whose search produced that listing.
C25_CampaignProducedListing ==
  \A f \in 1..Len(run.formatted_jobs) :
    \E i \in 1..Len(run.searched) :
      /\ run.searched[i].campaign = run.formatted_jobs[f].campaign
      /\ \E k \in 1..Len(run.searched[i].jobs) :
           run.searched[i].jobs[k].url = run.formatted_jobs[f].url

\* C26: create_proposal returns a result with a non-empty proposal text for
\* every well-formed score, whatever becomes of the hosted model's call: a
\* text, an error status, an exception, or no call at all for want of a key
\* (an empty answer and a failed prompt fall back to the template as well).
C26_ProposalNeverEmpty ==
  \A i \in 1..Len(proposals) :
    /\ proposals[i].result.proposal_text.chars > 0
    /\ proposals[i].result.word_count = proposals[i].result.proposal_text.words
    /\ (proposals[i].reply.kind # "ok" \/ ~proposals[i].called)
         => proposals[i].result.proposal_text.origin = "template"

\* The hosted model was called and answered with the empty string; the
\* template's text was returned.
C26_Witness ==
  /\ proposals # <<>>
  /\ proposals[1].called
  /\ proposals[1].reply.kind = "ok"
  /\ proposals[1].reply.text.chars = 0
  /\ proposals[1].result.proposal_text.origin = "template"
  /\ proposals[1].result.proposal_text.chars > 0

\* C27: a lookup goes to the cache before any per-URL query, and the cache
\* is invalidated at the start of every campaign run, so that the first
\* lookup of the run rebuilds it: when a run starts, the cache is not marked
\* refreshed and holds no entry of an earlier run.
C27_CacheInvalidatedAtRunStart ==
  lastOp.op = "run_start" => (~cacheRefreshed /\ cache = EmptyCache)

\* C28: after a successful write through a store instance (a create, a
\* merge, mark_job_status or log_proposal) the instance's cache entry of
\* that URL has the status and the confidence of the persisted page.
C28_CacheMatchesPersisted ==
  (lastOp.write = "ok" /\ lastOp.url # <<>> /\ lastOp.url[1] \in DOMAIN cache) =>
     /\ cache[lastOp.url[1]].status = pages[cache[lastOp.url[1]].id].status
     /\ cache[lastOp.url[1]].confidence = pages[cache[lastOp.url[1]].id].confidence

\* C29: the batch search_jobs returns has no two jobs of the same id; it is
\* made of the first job of every id among the jobs found, in the order they
\* were found, and deduplicating it again changes nothing.
C29_FirstOfEachId ==
  run.status = "Completed" =>
    LET firsts == {i \in 1..Len(run.all_jobs) :
                     \A j \in 1..Len(run.all_jobs) :
                       run.all_jobs[j].id = run.all_jobs[i].id => i <= j}
    IN /\ \A a, b \in 1..Len(run.result) :
            run.result[a].id = run.result[b].id => a = b
       /\ Len(run.result) = Cardinality(firsts)
       /\ \A k \in 1..Len(run.result) :
            \E i \in firsts :
              /\ run.result[k] = run.all_jobs[i]
              /\ Cardinality({j \in firsts : j < i}) = k - 1
       /\ DeduplicateJobs(run.result) = run.result

\* A completed run in which a later configuration found again, under its own
\* name, a job an earlier one had found; the batch keeps the earlier one.
C29_Witness ==
  /\ run.status = "Completed"
  /\ Len(run.result) >= 2
  /\ \E i, j \in 1..Len(run.all_jobs) :
       /\ i < j
       /\ run.all_jobs[i].id = run.all_jobs[j].id
       /\ run.all_jobs[i] # run.all_jobs[j]
       /\ \E k \in 1..Len(run.result) : run.result[k] = run.all_jobs[i]

\* C30: model_used names the hosted model only when the returned text came
\* from the hosted model's call; a text that came from a template carries a
\* template value.
C30_ModelUsedNamesOrigin ==
  \A i \in 1..Len(proposals) :
    /\ proposals[i].result.model_used = HostedModel
         => proposals[i].result.proposal_text.origin = "hosted"
    /\ proposals[i].result.proposal_text.origin = "template"
         => proposals[i].result.model_used \in {"template", "fallback_template"}

====
